---- MODULE Spec2Model ----
(***************************************************************************)
(* Multi-cursor editing core of parsec / duat.                             *)
(*                                                                         *)
(* The text is a sequence of one-character strings; all characters of the  *)
(* model are ASCII, so a char index and a byte offset coincide.  A cursor  *)
(* is a record [caret, anchor, assoc, is_main]: `anchor` and `assoc` use   *)
(* None for Rust's Option::None, `is_main` is a history field that travels *)
(* with the cursor and names the cursor the user designated as main.       *)
(*                                                                         *)
(* history.rs is not part of the sources: History and Moment are modelled  *)
(* from the specification (a moment is an ordered list of non-overlapping  *)
(* changes, kept in the coordinates of the current text, which is what the *)
(* forward undo loop of FileWidget::undo relies on).                       *)
(***************************************************************************)
EXTENDS Integers, Sequences, FiniteSets, TLC

\* ------------------------------------------------------------- bounds
MaxLen == 6
MaxMoments == 2
MaxOps == 4

None == 0 - 1

VARIABLES text, tags, cursors, main_index, clearing_needed, moments, cur,
          bases, tops, status, last, nops, builder, print_info, cfg, words, layout, commands,
          rw, reload, mode

vars == <<text, tags, cursors, main_index, clearing_needed, moments, cur,
          bases, tops, status, last, nops, builder, print_info, cfg, words, layout, commands,
          rw, reload, mode>>

\* Builder::default: an empty Text, no form and no alignment to close
Builder_default == [text |-> <<>>, tags |-> <<>>, last_form |-> "None", last_align |-> "None"]

\* PrintInfo::default
PrintInfo_default ==
    [first_char |-> 0, x_shift |-> 0, last_main |-> [ch |-> 0, col |-> 0, row |-> 0]]

\* PrintCfg::default (WrapMethod::NoWrap, ScrollOff { y_gap: 3, x_gap: 3 }) on a
\* label of 80 by 20 cells
PrintCfg_default ==
    [wrap_method |-> "NoWrap", cap |-> 0, y_gap |-> 3, x_gap |-> 3, width |-> 80, height |-> 20]

\* what the cursor and text operations leave alone
\* words(): nothing taken from the iterator yet
Words_default == [x |-> 0, next_line |-> TRUE, finished_word |-> <<>>, next |-> 0, new_lines |-> {}]

\* the state outside the text, its cursors and its history, and its initial value
Others == <<rw, reload, mode>>
OthersInit ==
    /\ rw = [updated_state |-> 1] /\ reload = [BREAK |-> 0] /\ mode = "Normal"
Rest == <<words, layout, commands, Others>>
RestInit ==
    /\ words = Words_default /\ layout = [solver |-> {}] /\ commands = [list |-> <<>>]
    /\ OthersInit

Apart == UNCHANGED <<builder, print_info, cfg, Rest>>

\* ------------------------------------------------------------- sequences
Min(a, b) == IF a <= b THEN a ELSE b

Max(a, b) == IF a >= b THEN a ELSE b

\* s[from..to) with zero-based offsets, as a Rust range
Slice(s, from, to) == SubSeq(s, from + 1, to)

\* s with [from..to) replaced by r
Splice(s, from, to, r) == SubSeq(s, 1, from) \o r \o SubSeq(s, to + 1, Len(s))

\* usize::saturating_add_signed
saturating_add_signed(n, d) == Max(0, n + d)

RemoveAt(s, i) == SubSeq(s, 1, i - 1) \o SubSeq(s, i + 1, Len(s))

InsertAt(s, i, e) == SubSeq(s, 1, i - 1) \o <<e>> \o SubSeq(s, i, Len(s))

\* ------------------------------------------------------------- changes
\* Change { start, taken_text, added_text }
Change_new(edit, start, end, t) == [start |-> start, taken |-> Slice(t, start, end), added |-> edit]

taken_end(c) == c.start + Len(c.taken)

added_end(c) == c.start + Len(c.added)

chars_diff(c) == Len(c.added) - Len(c.taken)

\* ------------------------------------------------------------- text
\* Text::replace_range on the character buffer
replace_range(t, start, end, edit) == Splice(t, start, end, edit)

\* the range handed to the rope must lie inside it, else the rope panics
range_ok(t, start, end) == 0 <= start /\ start <= end /\ end <= Len(t)

\* Text::apply_change
apply_change(t, change) == replace_range(t, change.start, taken_end(change), change.added)

\* undo_change without the shift of the changes undone before it
undo_change_noshift(t, change, chars) ==
    replace_range(t, change.start, added_end(change), change.taken)

\* Text::undo_change(change, chars)
undo_change(t, change, chars) ==
    replace_range(t, saturating_add_signed(change.start, chars),
                  saturating_add_signed(added_end(change), chars), change.taken)

\* ------------------------------------------------------------- history
\* A and B share text or touch
Touches(A, B) == A.start <= taken_end(B) /\ B.start <= added_end(A)

\* the text A added and the text B takes share a character, or one lies
\* strictly inside the other
StrictOverlap(A, B) == A.start < taken_end(B) /\ B.start < added_end(A)

\* the single change equal to A followed by B (B in the coordinates after A)
Compose(A, B) ==
    LET as == A.start
        ae == added_end(A)
        bs == B.start
        be == taken_end(B)
    IN [start |-> Min(as, bs),
        taken |-> (IF bs < as THEN Slice(B.taken, 0, as - bs) ELSE <<>>)
                  \o A.taken
                  \o (IF be > ae THEN Slice(B.taken, ae - bs, Len(B.taken)) ELSE <<>>),
        added |-> (IF as < bs THEN Slice(A.added, 0, bs - as) ELSE <<>>)
                  \o B.added
                  \o (IF ae > be THEN Slice(A.added, be - as, Len(A.added)) ELSE <<>>)]

RECURSIVE ComposeDown(_, _, _, _)
\* B composed with m[hi], m[hi-1], ..., m[lo]
ComposeDown(m, lo, hi, B) ==
    IF hi < lo THEN B ELSE ComposeDown(m, lo, hi - 1, Compose(m[hi], B))

ShiftChange(c, d) == [c EXCEPT !.start = c.start + d]

\* Moment::add_change(change, assoc_index) -> (insertion_index, change_diff).
\* B coalesces with the change the cursor is associated with when they touch
\* (spec 3.5), and with every change whose added text it overlaps; otherwise
\* it is inserted in order.  Later changes move by B's chars_diff.
Moment_add_change(m, B, assoc) ==
    LET hit == {i \in 1..Len(m) : StrictOverlap(m[i], B) \/ (i = assoc + 1 /\ Touches(m[i], B))}
        before == {i \in 1..Len(m) : added_end(m[i]) <= B.start}
        k == Cardinality(before)
        lo == CHOOSE i \in hit : \A j \in hit : i <= j
        hi == CHOOSE i \in hit : \A j \in hit : i >= j
        tail(from) == [j \in 1..(Len(m) - from) |-> ShiftChange(m[from + j], chars_diff(B))]
    IN IF hit = {}
       THEN [changes |-> SubSeq(m, 1, k) \o <<B>> \o tail(k), index |-> k, diff |-> 1]
       ELSE [changes |-> SubSeq(m, 1, lo - 1) \o <<ComposeDown(m, lo, hi, B)>> \o tail(hi),
             index |-> lo - 1, diff |-> lo - hi]

\* the history once moment c1 has taken the change (r is the moment's answer)
History_store(ms1, c1, bs1, ts1, t1, r) ==
    [moments |-> [ms1 EXCEPT ![c1] = r.changes], cur |-> c1, bases |-> bs1,
     tops |-> [ts1 EXCEPT ![c1] = t1], index |-> r.index, diff |-> r.diff]

\* History::add_change: edits go to the current moment; redo-able moments
\* after it are dropped; a history with nothing applied starts a moment.
History_add_change(ms, c, bs, ts, t0, t1, B, assoc) ==
    IF c = 0
    THEN History_store(<<<<>>>>, 1, <<t0>>, <<t1>>, t1, Moment_add_change(<<>>, B, assoc))
    ELSE History_store(SubSeq(ms, 1, c), c, SubSeq(bs, 1, c), SubSeq(ts, 1, c), t1,
                       Moment_add_change(ms[c], B, assoc))

\* the moment Movers are given
current_moment == IF cur >= 1 THEN moments[cur] ELSE <<>>

\* ------------------------------------------------------------- cursors
\* Cursor::new: no anchor, no associated change
Cursor_new(pos) == [caret |-> pos, anchor |-> None, assoc |-> None, is_main |-> FALSE]

\* Cursor::range, start and end
range_start(c) == IF c.anchor = None THEN c.caret ELSE Min(c.anchor, c.caret)

range_end(c) == IF c.anchor = None THEN c.caret ELSE Max(c.anchor, c.caret)

\* rope.char_to_byte(ch) panics past the end of the rope
char_ok(t, ch) == ch <= Len(t)

\* every position of the cursor can be looked up in the rope
cursor_ok(t, c) == char_ok(t, c.caret) /\ (c.anchor = None \/ char_ok(t, c.anchor))

\* Pos::calibrate: the shifted char index is computed and dropped, the
\* position is then looked up again in the rope
Pos_calibrate(ch, ch_diff) == ch

\* Cursor::calibrate_on_adder: the shifted assoc_index is dropped as well
calibrate_on_adder(c, ch_diff, change_diff) ==
    [c EXCEPT !.caret = Pos_calibrate(c.caret, ch_diff),
              !.anchor = IF c.anchor = None THEN None ELSE Pos_calibrate(c.anchor, ch_diff)]

\* position.rs intersects
intersects(fs, fe, ss, se) == fe > ss \/ se > fs

\* Cursor::change_range_check
change_range_check(c, moment) ==
    IF c.assoc = None THEN c
    ELSE IF c.assoc < Len(moment)
         THEN LET change == moment[c.assoc + 1]
              IN IF ~intersects(change.start, added_end(change), range_start(c), range_end(c))
                 THEN [c EXCEPT !.assoc = None] ELSE c
         ELSE [c EXCEPT !.assoc = None]

\* Cursor::move_hor: the caret moves, the anchor is dropped
Cursor_move_hor(c, count) ==
    [c EXCEPT !.caret = saturating_add_signed(c.caret, count), !.anchor = None]

\* Mover::move_hor
Mover_move_hor(c, count, moment) == change_range_check(Cursor_move_hor(c, count), moment)

\* Cursor::set_anchor / Mover::set_anchor
set_anchor(c) == [c EXCEPT !.anchor = c.caret]

\* Cursor::unset_anchor / Mover::unset_anchor
unset_anchor(c) == [c EXCEPT !.anchor = None]

\* Mover::switch_ends
switch_ends(c) == IF c.anchor = None THEN c ELSE [c EXCEPT !.caret = c.anchor, !.anchor = c.caret]

\* Mover::set_caret_on_end
set_caret_on_end(c) == IF c.anchor # None /\ c.caret < c.anchor THEN switch_ends(c) ELSE c

\* the closures the key handlers hand to move_each_cursor / move_nth
MoveOps == {"left", "right", "sel_right", "switch_ends", "caret_on_end"}

\* running a Mover closure on one cursor
run_mover(f, c, moment) ==
    CASE f = "left" -> Mover_move_hor(unset_anchor(c), 0 - 1, moment)
      [] f = "right" -> Mover_move_hor(unset_anchor(c), 1, moment)
      [] f = "sel_right" -> Mover_move_hor(IF c.anchor = None THEN set_anchor(c) ELSE c, 1, moment)
      [] f = "switch_ends" -> switch_ends(c)
      [] OTHER -> set_caret_on_end(c)

\* the closure returns: no rope lookup of it went past the end of the text
mover_ok(f, c, t) == f \in {"switch_ends", "caret_on_end"} \/ cursor_ok(t, run_mover(f, c, <<>>))

\* ------------------------------------------------------------- editors
\* the closures the key handlers hand to edit_on_each_cursor / edit_on_nth
EditOps == {[kind |-> "insert", str |-> <<"x">>],
            [kind |-> "replace", str |-> <<"y", "z">>],
            [kind |-> "replace", str |-> <<>>]}

\* the carets and anchors of a cursor list, as a moment boundary finds them
Carets(cs) == [i \in 1..Len(cs) |-> [caret |-> cs[i].caret, anchor |-> cs[i].anchor]]

\* the widget while a batch runs, with the batch's EditAccum
Batch(cs) == [text |-> text, moments |-> moments, cur |-> cur, bases |-> bases, tops |-> tops,
              cursors |-> cs, chars |-> 0, changes |-> 0, ok |-> TRUE,
              base |-> [text |-> text, carets |-> Carets(cursors)]]

\* what Editor::edit writes back: the new text t1, the history's answer h
Editor_store(S, i, change, t1, h) ==
    [S EXCEPT !.text = t1, !.moments = h.moments, !.cur = h.cur, !.bases = h.bases,
              !.tops = h.tops, !.cursors[i].assoc = h.index,
              !.chars = @ + chars_diff(change), !.changes = @ + h.diff]

\* Editor::edit on cursor i: the change goes to the text and to the history,
\* the cursor is associated with the change's index
Editor_edit(S, i, change) ==
    Editor_store(S, i, change, apply_change(S.text, change),
                 History_add_change(S.moments, S.cur, S.bases, S.tops, S.base,
                                    apply_change(S.text, change), change, S.cursors[i].assoc))

\* the end of Editor::replace: the selection covers what was added
replace_ends(S1, i, c, change) ==
    IF c.anchor # None /\ c.anchor > c.caret
    THEN [S1 EXCEPT !.cursors[i].anchor = added_end(change)]
    ELSE [S1 EXCEPT !.cursors[i].caret = added_end(change), !.cursors[i].anchor = change.start]

\* Editor::replace on cursor i
Editor_replace(S, i, edit) ==
    replace_ends(Editor_edit(S, i, Change_new(edit, range_start(S.cursors[i]),
                                              range_end(S.cursors[i]), S.text)),
                 i, S.cursors[i],
                 Change_new(edit, range_start(S.cursors[i]), range_end(S.cursors[i]), S.text))

\* the end of Editor::insert: an anchor after the caret is calibrated
insert_ends(S1, i, c, change) ==
    IF c.anchor # None /\ c.anchor > c.caret
    THEN [S1 EXCEPT !.cursors[i].anchor = Pos_calibrate(c.anchor, chars_diff(change))]
    ELSE S1

\* Editor::insert on cursor i
Editor_insert(S, i, edit) ==
    insert_ends(Editor_edit(S, i, Change_new(edit, S.cursors[i].caret, S.cursors[i].caret, S.text)),
                i, S.cursors[i],
                Change_new(edit, S.cursors[i].caret, S.cursors[i].caret, S.text))

\* running an Editor closure on cursor i
run_editor(f, S, i) ==
    IF f.kind = "insert" THEN Editor_insert(S, i, f.str) ELSE Editor_replace(S, i, f.str)

\* SchemeInputWidget::editor(index, edit_accum) followed by the closure:
\* creating the Editor calibrates the cursor, which looks its positions up
editor_run(S, i, f) ==
    IF ~S.ok \/ ~cursor_ok(S.text, calibrate_on_adder(S.cursors[i], S.chars, S.changes))
    THEN [S EXCEPT !.ok = FALSE]
    ELSE run_editor(f, [S EXCEPT !.cursors[i] = calibrate_on_adder(@, S.chars, S.changes)], i)

\* SchemeInputWidget::editor(index, edit_accum) alone
editor_only(S, i) ==
    LET c == calibrate_on_adder(S.cursors[i], S.chars, S.changes)
    IN IF ~S.ok \/ ~cursor_ok(S.text, c) THEN [S EXCEPT !.ok = FALSE]
       ELSE [S EXCEPT !.cursors[i] = c]

RECURSIVE edit_from(_, _, _)
\* the loop of edit_on_each_cursor from cursor i on
edit_from(S, i, f) ==
    IF i > Len(S.cursors) THEN S ELSE edit_from(editor_run(S, i, f), i + 1, f)

RECURSIVE calibrate_from(_, _, _)
\* the loop of edit_on_nth over the cursors i .. to
calibrate_from(S, i, to) ==
    IF i > to THEN S ELSE calibrate_from(editor_only(S, i), i + 1, to)

\* ------------------------------------------------------------- cursor list
\* marks the cursor main_index designates when an operation starts
Stamp(cs, mi) == [i \in 1..Len(cs) |-> [cs[i] EXCEPT !.is_main = (i = mi + 1)]]

\* Cursor::try_merge(start, end) succeeds when the ranges meet
try_merge_ok(c, prev) == range_start(c) <= range_end(prev) /\ range_start(prev) <= range_end(c)

\* Cursor::try_merge(start, end): the cursor grows to the union of the ranges
try_merge(c, prev) ==
    LET s == Min(range_start(c), range_start(prev))
        e == Max(range_end(c), range_end(prev))
    IN IF s = e /\ c.anchor = None THEN [c EXCEPT !.is_main = c.is_main \/ prev.is_main]
       ELSE IF c.anchor # None /\ c.anchor > c.caret
            THEN [c EXCEPT !.caret = s, !.anchor = e, !.is_main = c.is_main \/ prev.is_main]
            ELSE [c EXCEPT !.caret = e, !.anchor = s, !.is_main = c.is_main \/ prev.is_main]

RECURSIVE clear_loop(_, _, _)
\* the loop of clear_intersections: `out` ends with the last cursor seen
clear_loop(out, cs, i) ==
    IF i > Len(cs) THEN out
    ELSE LET prev == out[Len(out)]
         IN IF try_merge_ok(cs[i], prev)
            THEN clear_loop(SubSeq(out, 1, Len(out) - 1) \o <<try_merge(cs[i], prev)>>, cs, i + 1)
            ELSE clear_loop(Append(out, cs[i]), cs, i + 1)

\* WidgetActor::clear_intersections (the list is not empty)
clear_intersections(cs) == clear_loop(<<cs[1]>>, cs, 2)

\* at_start_ord
at_start_ord(ls, le, rs, re) ==
    IF le > rs /\ rs > ls THEN "Equal" ELSE IF ls > re THEN "Greater" ELSE "Less"

\* the comparison both the sort and the search are given
cursor_ord(j, k) == at_start_ord(range_start(j), range_end(j), range_start(k), range_end(k))

RECURSIVE insert_tail(_, _)
\* core::slice::sort::insert_tail: x moves left while it compares Less
insert_tail(sorted, x) ==
    IF Len(sorted) = 0 \/ cursor_ord(x, sorted[Len(sorted)]) # "Less" THEN Append(sorted, x)
    ELSE Append(insert_tail(SubSeq(sorted, 1, Len(sorted) - 1), x), sorted[Len(sorted)])

RECURSIVE sort_loop(_, _, _)
sort_loop(sorted, cs, i) ==
    IF i > Len(cs) THEN sorted ELSE sort_loop(insert_tail(sorted, cs[i]), cs, i + 1)

\* sort_unstable_by on a short slice is an insertion sort
sort_unstable_by(cs) == sort_loop(<<>>, cs, 1)

RECURSIVE search_loop(_, _, _, _)
\* the loop of slice::binary_search_by, zero-based left and right
search_loop(cs, x, left, right) ==
    IF left >= right THEN left
    ELSE LET mid == left + ((right - left) \div 2)
             cmp == cursor_ord(cs[mid + 1], x)
         IN IF cmp = "Less" THEN search_loop(cs, x, mid + 1, right)
            ELSE IF cmp = "Greater" THEN search_loop(cs, x, left, mid)
            ELSE mid

\* binary_search_by, Ok(index) and Err(index) alike
binary_search_by(cs, x) == search_loop(cs, x, 0, Len(cs))

RECURSIVE move_loop(_, _, _, _)
\* the loop of move_each_cursor
move_loop(cs, i, f, moment) ==
    IF i > Len(cs) THEN cs
    ELSE move_loop([cs EXCEPT ![i] = run_mover(f, cs[i], moment)], i + 1, f, moment)

\* ------------------------------------------------------------- undo / redo
RECURSIVE last_filled(_, _)
\* the nearest moment at or below k that holds a change, 0 when none does
last_filled(ms, k) == IF k = 0 \/ ms[k] # <<>> THEN k ELSE last_filled(ms, k - 1)

\* History::move_backwards: the moment to undo, 0 for None
move_backwards(ms, c) == last_filled(ms, c)

\* History::move_forward: the moment to redo, 0 for None
move_forward(ms, c) == IF c < Len(ms) /\ ms[c + 1] # <<>> THEN c + 1 ELSE 0

RECURSIVE undo_loop(_, _, _, _, _)
\* the loop of FileWidget::undo: changes in order, each calibrated by what
\* the earlier ones gave back; one cursor per change, at the end of what it took
undo_loop(t, cs, changes, i, adder) ==
    IF i > Len(changes) THEN [text |-> t, cursors |-> cs]
    ELSE LET change == changes[i]
         IN undo_loop(undo_change(t, change, adder),
                      Append(cs, Cursor_new(saturating_add_signed(taken_end(change), adder))),
                      changes, i + 1, adder - chars_diff(change))

RECURSIVE redo_loop_at_start(_, _, _, _)
\* redo_loop leaving each cursor where its change starts
redo_loop_at_start(t, cs, changes, i) ==
    IF i > Len(changes) THEN [text |-> t, cursors |-> cs]
    ELSE redo_loop_at_start(apply_change(t, changes[i]),
                            Append(cs, Cursor_new(changes[i].start)), changes, i + 1)

RECURSIVE redo_loop_rev(_, _, _, _)
\* redo_loop replaying the changes of the moment last to first
redo_loop_rev(t, cs, changes, i) ==
    IF i > Len(changes) THEN [text |-> t, cursors |-> cs]
    ELSE LET change == changes[Len(changes) + 1 - i]
         IN redo_loop_rev(replace_range(t, change.start, Min(taken_end(change), Len(t)),
                                        change.added),
                          Append(cs, Cursor_new(added_end(change))), changes, i + 1)

RECURSIVE redo_loop(_, _, _, _)
\* the loop of FileWidget::redo: one cursor per change, at the end of what it added
redo_loop(t, cs, changes, i) ==
    IF i > Len(changes) THEN [text |-> t, cursors |-> cs]
    ELSE redo_loop(apply_change(t, changes[i]), Append(cs, Cursor_new(added_end(changes[i]))),
                   changes, i + 1)

\* ------------------------------------------------------------- actions
Running == status \in {"run", "open"} /\ nops < MaxOps

Step(op) == last' = [op |-> op] /\ nops' = nops + 1 /\ Apart

\* a call that ran the closure f on one cursor: the cursor before and after it
StepOn(op, f, was, now) ==
    /\ last' = [op |-> op, f |-> f, was |-> was, now |-> now]
    /\ nops' = nops + 1
    /\ Apart

\* an edit_on_nth that returned: the list and the text it was called on as well
StepNth(f, index, now) ==
    /\ last' = [op |-> "edit_on_nth", f |-> f, was |-> cursors[index + 1], now |-> now,
                index |-> index, cursors |-> cursors, len |-> Len(text)]
    /\ nops' = nops + 1
    /\ Apart

Panic(op) ==
    /\ status' = "panic"
    /\ Step(op)
    /\ UNCHANGED <<text, tags, cursors, main_index, clearing_needed, moments, cur, bases, tops>>

\* WidgetActor::new: every key event gets a new actor
WidgetActor_new ==
    /\ Running
    /\ clearing_needed
    /\ clearing_needed' = FALSE
    /\ Step("new_actor")
    /\ UNCHANGED <<text, tags, cursors, main_index, moments, cur, bases, tops, status>>

\* WidgetActor::edit_on_each_cursor
edit_on_each_cursor(f) ==
    /\ Running
    /\ \E S \in {edit_from(Batch(clear_intersections(Stamp(cursors, main_index))), 1, f)} :
          IF S.ok
          THEN /\ Len(S.text) <= MaxLen
               /\ text' = S.text /\ cursors' = S.cursors
               /\ moments' = S.moments /\ cur' = S.cur /\ bases' = S.bases /\ tops' = S.tops
               /\ Step("edit_on_each")
               /\ UNCHANGED <<tags, main_index, clearing_needed, status>>
          ELSE Panic("edit_on_each")

\* WidgetActor::move_each_cursor
move_each_cursor(f) ==
    /\ Running
    /\ IF \A i \in 1..Len(cursors) : mover_ok(f, cursors[i], text)
       THEN /\ cursors' = sort_unstable_by(move_loop(Stamp(cursors, main_index), 1, f, current_moment))
            /\ clearing_needed' = TRUE
            /\ Step("move_each")
            /\ UNCHANGED <<text, tags, main_index, moments, cur, bases, tops, status>>
       ELSE Panic("move_each")

\* WidgetActor::move_nth
move_nth(f, index) ==
    /\ Running
    /\ IF index < Len(cursors) /\ mover_ok(f, cursors[index + 1], text)
       THEN LET cs == Stamp(cursors, main_index)
                cursor == run_mover(f, cs[index + 1], current_moment)
                rest == RemoveAt(cs, index + 1)
                new_index == binary_search_by(rest, cursor)
            IN /\ cursors' = InsertAt(rest, new_index + 1, cursor)
               /\ main_index' = IF index = main_index THEN new_index ELSE main_index
               /\ clearing_needed' = TRUE
               /\ StepOn("move_nth", f, cs[index + 1], cursor)
               /\ UNCHANGED <<text, tags, moments, cur, bases, tops, status>>
       ELSE Panic("move_nth")

\* WidgetActor::edit_on_nth: with clearing_needed set, clear_intersections
\* asks for the write lock this function already holds
edit_on_nth(f, index) ==
    /\ Running
    /\ IF index >= Len(cursors) THEN Panic("edit_on_nth")
       ELSE IF clearing_needed
       THEN /\ status' \in {"deadlock", "panic"}
            /\ Step("edit_on_nth")
            /\ UNCHANGED <<text, tags, cursors, main_index, clearing_needed, moments, cur,
                           bases, tops>>
       ELSE \E S \in {calibrate_from(editor_run(Batch(Stamp(cursors, main_index)), index + 1, f),
                                     index + 2, Len(cursors) - 1)} :
               IF S.ok
               THEN /\ Len(S.text) <= MaxLen
                    /\ text' = S.text /\ cursors' = S.cursors
                    /\ moments' = S.moments /\ cur' = S.cur /\ bases' = S.bases /\ tops' = S.tops
                    /\ StepNth(f, index, S.cursors[index + 1])
                    /\ UNCHANGED <<tags, main_index, clearing_needed, status>>
               ELSE Panic("edit_on_nth")

\* WidgetActor::rotate_main_forward
rotate_main_forward ==
    /\ Running
    /\ Len(cursors) > 0
    /\ main_index' = IF main_index = Len(cursors) - 1 THEN 0 ELSE main_index + 1
    /\ Step("rotate_main_forward")
    /\ UNCHANGED <<text, tags, cursors, clearing_needed, moments, cur, bases, tops, status>>

\* WidgetActor::rotate_main_backwards
rotate_main_backwards ==
    /\ Running
    /\ Len(cursors) > 0
    /\ main_index' = IF main_index = 0 THEN Len(cursors) - 1 ELSE main_index - 1
    /\ Step("rotate_main_backwards")
    /\ UNCHANGED <<text, tags, cursors, clearing_needed, moments, cur, bases, tops, status>>

\* FileWidget::new_moment: the cursors let go of their changes, the history
\* drops what could be redone and starts an empty moment
new_moment ==
    /\ Running
    /\ cur < MaxMoments
    /\ cursors' = [i \in 1..Len(cursors) |-> [cursors[i] EXCEPT !.assoc = None]]
    /\ moments' = Append(SubSeq(moments, 1, cur), <<>>)
    /\ bases' = Append(SubSeq(bases, 1, cur), [text |-> text, carets |-> Carets(cursors)])
    /\ tops' = Append(SubSeq(tops, 1, cur), text)
    /\ cur' = cur + 1
    /\ Step("new_moment")
    /\ UNCHANGED <<text, tags, main_index, clearing_needed, status>>

\* FileWidget::undo
undo ==
    /\ Running
    /\ LET k == move_backwards(moments, cur)
           r == undo_loop(text, <<>>, moments[k], 1, 0)
       IN IF k = 0
          THEN /\ Step("undo_none")
               /\ UNCHANGED <<text, cursors, cur>>
          ELSE /\ text' = r.text
               /\ cursors' = r.cursors
               /\ cur' = k - 1
               /\ Step("undo")
    /\ UNCHANGED <<tags, main_index, clearing_needed, moments, bases, tops, status>>

\* FileWidget::redo
redo ==
    /\ Running
    /\ LET k == move_forward(moments, cur)
           r == redo_loop(text, <<>>, moments[k], 1)
       IN IF k = 0
          THEN /\ Step("redo_none")
               /\ UNCHANGED <<text, cursors, cur>>
          ELSE /\ text' = r.text
               /\ cursors' = r.cursors
               /\ cur' = k
               /\ Step("redo")
    /\ UNCHANGED <<tags, main_index, clearing_needed, moments, bases, tops, status>>

\* ------------------------------------------------------------- specification
InitTexts == {<<"a", "b">>, <<"a", "b", "c">>}

\* sorted lists of carets that do not meet
InitCarets(t) == {<<0>>, <<Len(t)>>, <<0, 2>>, <<1, Len(t)>>}

Init ==
    /\ text \in InitTexts
    /\ \E cs \in InitCarets(text) : cursors = [i \in 1..Len(cs) |-> Cursor_new(cs[i])]
    /\ main_index \in 0..(Len(cursors) - 1)
    /\ tags = {}
    /\ clearing_needed = FALSE
    /\ moments = <<>> /\ cur = 0 /\ bases = <<>> /\ tops = <<>>
    /\ status = "run"
    /\ last = [op |-> "init"]
    /\ nops = 0
    /\ builder = Builder_default /\ print_info = PrintInfo_default
    /\ cfg = PrintCfg_default /\ RestInit

Next ==
    \/ WidgetActor_new
    \/ \E f \in EditOps : edit_on_each_cursor(f)
    \/ \E f \in MoveOps : move_each_cursor(f)
    \/ \E f \in MoveOps : \E index \in 0..Max(main_index, Len(cursors) - 1) : move_nth(f, index)
    \/ \E f \in EditOps : \E index \in 0..Max(main_index, Len(cursors) - 1) : edit_on_nth(f, index)
    \/ rotate_main_forward
    \/ rotate_main_backwards
    \/ new_moment
    \/ undo
    \/ redo

Spec == Init /\ [][Next]_vars

\* ------------------------------------------------------------- claims
\* C1: a moment's edits followed by undo() give back, character for
\* character, the buffer the moment started from.
C1_UndoRestoresBuffer == (status = "run" /\ last.op = "undo") => text = bases[cur + 1].text

\* an undone moment of two changes whose edits had changed the buffer
C1_Witness ==
    /\ status = "run" /\ last.op = "undo"
    /\ Len(moments[cur + 1]) >= 2
    /\ tops[cur + 1] # bases[cur + 1].text
    /\ text = bases[cur + 1].text

\* C2: apply(M); undo(); redo() gives the buffer as it was right after apply(M).
C2_RedoRestoresBuffer == (status = "run" /\ last.op = "redo") => text = tops[cur]

\* a redone moment of two changes
C2_Witness ==
    /\ status = "run" /\ last.op = "redo"
    /\ Len(moments[cur]) >= 2
    /\ tops[cur] # bases[cur].text
    /\ text = tops[cur]

\* the bytes a cursor selects: [min(caret, anchor), max(caret, anchor))
selection(c) == range_start(c)..(range_end(c) - 1)

\* C3: when a move_each / edit_on_each batch returns, the selections of every
\* two cursors are disjoint.
C3_SelectionsDisjoint ==
    (status = "run" /\ last.op \in {"move_each", "edit_on_each"}) =>
        \A i, j \in 1..Len(cursors) : i < j => selection(cursors[i]) \cap selection(cursors[j]) = {}

\* C9: after any sequence of moves, edits, merges, main rotations, undos and
\* redos, main_index is an index of the cursor list when the list is not empty.
C9_MainIndexValid == (status = "run" /\ Len(cursors) > 0) => main_index < Len(cursors)

\* C10: after a move batch has re-sorted the cursors, main_index designates the
\* cursor that was the main cursor before the batch.
C10_MainIndexFollowsMain ==
    (status = "run" /\ last.op \in {"move_each", "move_nth"}) =>
        (main_index < Len(cursors) /\ cursors[main_index + 1].is_main)

\* ------------------------------------------------------------- scenario S1
\* the S1 run is longer than MaxOps: its budget starts S1Extra operations earlier
S1Extra == 3

S1Hello == <<"h", "e", "l", "l", "o">>

S1World == <<" ", "w", "o", "r", "l", "d">>

\* Mover::move_hor(count) on every cursor of the list
hor_each(cs, count, moment) == [i \in 1..Len(cs) |-> Mover_move_hor(cs[i], count, moment)]

\* what move_each_cursor leaves once the typed text is in: the carets moved
\* past it, the list sorted
typed_ends(S, count) ==
    sort_unstable_by(hor_each(S.cursors, count, IF S.cur >= 1 THEN S.moments[S.cur] ELSE <<>>))

\* the insert-mode key handler on typed text: a new WidgetActor,
\* edit_on_each_cursor(insert) and move_each_cursor(move_hor)
match_insert(str) ==
    /\ Running
    /\ \E S \in {edit_from(Batch(clear_intersections(Stamp(cursors, main_index))), 1,
                           [kind |-> "insert", str |-> str])} :
          IF S.ok /\ \A i \in 1..Len(S.cursors) :
                        cursor_ok(S.text, Cursor_move_hor(S.cursors[i], Len(str)))
          THEN /\ text' = S.text
               /\ cursors' = typed_ends(S, Len(str))
               /\ moments' = S.moments /\ cur' = S.cur /\ bases' = S.bases /\ tops' = S.tops
               /\ clearing_needed' = TRUE
               /\ Step("match_insert")
               /\ UNCHANGED <<tags, main_index, status>>
          ELSE Panic("match_insert")

InitS1 ==
    /\ text = <<>>
    /\ cursors = <<Cursor_new(0)>>
    /\ main_index = 0
    /\ tags = {}
    /\ clearing_needed = FALSE
    /\ moments = <<>> /\ cur = 0 /\ bases = <<>> /\ tops = <<>>
    /\ status = "run"
    /\ last = [op |-> "init"]
    /\ nops = 0 - S1Extra
    /\ builder = Builder_default /\ print_info = PrintInfo_default
    /\ cfg = PrintCfg_default /\ RestInit

NextS1 ==
    \/ \E str \in {S1Hello, S1World} : match_insert(str)
    \/ move_each_cursor("left")
    \/ new_moment
    \/ undo
    \/ redo

SpecS1 == InitS1 /\ [][NextS1]_vars

\* the history of S1: "hello" typed in one moment, " world" in the next
S1Moments ==
    << <<[start |-> 0, taken |-> <<>>, added |-> S1Hello]>>,
       <<[start |-> Len(S1Hello), taken |-> <<>>, added |-> S1World]>> >>

\* the caret undo leaves for change i of a moment: the end of what the change
\* took, moved by what the changes before it gave back
RECURSIVE given_back(_, _)
given_back(changes, i) == IF i = 0 THEN 0 ELSE given_back(changes, i - 1) + chars_diff(changes[i])

UsizeRange == 65536 * 16384

\* a - b on usize when overflow checks are off
wrapping_sub(a, b) == (a - b) % UsizeRange

\* a + b on usize when overflow checks are off
wrapping_add(a, b) == (a + b) % UsizeRange

RECURSIVE row_of(_, _)
\* the line breaks of t before offset n
row_of(t, n) == IF n = 0 THEN 0 ELSE row_of(t, n - 1) + (IF t[n] = "\n" THEN 1 ELSE 0)

RECURSIVE line_start(_, _)
\* the offset at which the line holding offset n starts
line_start(t, n) == IF n = 0 \/ t[n] = "\n" THEN n ELSE line_start(t, n - 1)

\* TextPos { byte, col, row } of offset n in t
TextPos_at(t, n) == [byte |-> n, col |-> n - line_start(t, n), row |-> row_of(t, n)]

\* impl Sub for TextPos: the column is subtracted on the same row only
TextPos_sub(a, b) ==
    [row |-> a.row - b.row, byte |-> a.byte - b.byte,
     col |-> IF a.row = b.row THEN a.col - b.col ELSE a.col]

RECURSIVE first_break(_, _)
\* the index of the first line break of str at or after i, 0 when there is none
first_break(str, i) ==
    IF i > Len(str) THEN 0 ELSE IF str[i] = "\n" THEN i ELSE first_break(str, i + 1)

RECURSIVE cut_lines(_, _)
\* str cut after its line break at k, and so on
cut_lines(str, k) ==
    IF k = 0 THEN <<str>>
    ELSE <<SubSeq(str, 1, k)>> \o cut_lines(SubSeq(str, k + 1, Len(str)),
                                            first_break(SubSeq(str, k + 1, Len(str)), 1))

\* split_string_lines: the lines of str, each with its line break, and the
\* piece after the last break
split_string_lines(str) == cut_lines(str, first_break(str, 1))

RECURSIVE lines_len(_)
\* lines.iter().map(|l| l.len()).sum()
lines_len(lines) == IF lines = <<>> THEN 0 ELSE Len(Head(lines)) + lines_len(Tail(lines))

RECURSIVE concat_lines(_)
\* the text a Vec<String> of lines stands for
concat_lines(lines) == IF lines = <<>> THEN <<>> ELSE Head(lines) \o concat_lines(Tail(lines))

\* Change::new(&lines, range, &text.lines): the splice and both texts, by lines
Change_of_lines(edit, start, end, t) ==
    [splice |-> [start |-> TextPos_at(t, start), taken_end |-> TextPos_at(t, end),
                 added_end |-> TextPos_at(Splice(t, start, end, edit), start + Len(edit))],
     taken_text |-> split_string_lines(Slice(t, start, end)),
     added_text |-> split_string_lines(edit)]

\* TextRange::contains_range, on positions ordered by their byte
contains_range(o_start, o_end, i_start, i_end) ==
    o_start.byte <= i_start.byte /\ i_end.byte <= o_end.byte

\* get_byte_at_col(col, line).unwrap_or(line.len())
get_byte_at_col(col, line) == Min(col, Len(line))

\* the else branch of merge_edit: the edit's first line takes what the first
\* row keeps in front, its last line what the last row keeps behind
amend_lines(edit, first_amend, last_amend) ==
    IF Len(edit) = 1 THEN <<first_amend \o edit[1] \o last_amend>>
    ELSE <<first_amend \o edit[1]>> \o SubSeq(edit, 2, Len(edit) - 1)
         \o <<edit[Len(edit)] \o last_amend>>

\* merge_edit once the range is relative to the start of orig
merge_lines(orig, edit, from, to) ==
    IF from.row = to.row /\ Len(edit) = 1
    THEN [orig EXCEPT ![from.row + 1] =
             Splice(@, get_byte_at_col(from.col, @), get_byte_at_col(to.col, @), edit[1])]
    ELSE SubSeq(orig, 1, from.row)
         \o amend_lines(edit,
                        SubSeq(orig[from.row + 1], 1, get_byte_at_col(from.col, orig[from.row + 1])),
                        SubSeq(orig[to.row + 1], get_byte_at_col(to.col, orig[to.row + 1]) + 1,
                               Len(orig[to.row + 1])))
         \o SubSeq(orig, to.row + 2, Len(orig))

\* merge_edit where the last row keeps nothing behind the range
merge_edit_cut(orig, edit, start, range) ==
    SubSeq(orig, 1, range.start.row - start.row)
    \o amend_lines(edit, <<>>, <<>>)
    \o SubSeq(orig, range.end.row - start.row + 2, Len(orig))

\* merge_edit(orig, edit, start, range)
merge_edit(orig, edit, start, range) ==
    merge_lines(orig, edit, TextPos_sub(range.start, start), TextPos_sub(range.end, start))

\* range.lines().count()
lines_count(range) == range.end.row - range.start.row + 1

\* the `diff` of move_end
move_end_diff(added, range) ==
    IF Len(added) = 1 THEN wrapping_sub(range.end.col, range.start.col) ELSE range.end.col

\* no subtraction of move_end goes below zero: what a build with overflow
\* checks needs to get through it
move_end_checked(taken, added, end, range) ==
    /\ end.row = range.end.row =>
          /\ Len(added) = 1 => range.end.col >= range.start.col
          /\ Len(added[Len(added)]) >= move_end_diff(added, range)
    /\ Len(added) >= lines_count(range)
    /\ lines_len(added) >= lines_len(taken)

\* move_end(taken, added, end, range), in wrapping arithmetic
move_end(taken, added, end, range) ==
    [col |-> IF end.row = range.end.row
             THEN wrapping_add(end.col, wrapping_sub(Len(added[Len(added)]),
                                                     move_end_diff(added, range)))
             ELSE end.col,
     row |-> wrapping_add(end.row, wrapping_sub(Len(added), lines_count(range))),
     byte |-> wrapping_add(end.byte, wrapping_sub(lines_len(added), lines_len(taken)))]

\* the ranges try_merge compares
added_range(c) == [start |-> c.splice.start, end |-> c.splice.added_end]

taken_range(c) == [start |-> c.splice.start, end |-> c.splice.taken_end]

\* EditCursor::try_merge on a cursor holding the change orig: what the
\* cursor holds afterwards and which branch was taken
EditCursor_try_merge(orig, edit) ==
    IF contains_range(orig.splice.start, orig.splice.added_end,
                      edit.splice.start, edit.splice.taken_end)
    THEN [branch |-> "orig",
          checked |-> move_end_checked(edit.taken_text, edit.added_text,
                                       orig.splice.added_end, taken_range(edit)),
          change |-> [orig EXCEPT
                        !.added_text = merge_edit(@, edit.added_text, orig.splice.start,
                                                  taken_range(edit)),
                        !.splice.added_end = move_end(edit.taken_text, edit.added_text, @,
                                                      taken_range(edit))]]
    ELSE IF contains_range(edit.splice.start, edit.splice.taken_end,
                           orig.splice.start, orig.splice.added_end)
    THEN [branch |-> "edit",
          checked |-> move_end_checked(orig.added_text, orig.taken_text,
                                       edit.splice.taken_end, added_range(orig)),
          change |-> [edit EXCEPT
                        !.taken_text = merge_edit(@, orig.taken_text, edit.splice.start,
                                                  added_range(orig)),
                        !.splice.taken_end = move_end(orig.added_text, orig.taken_text, @,
                                                      added_range(orig))]]
    ELSE [branch |-> "replaced", checked |-> TRUE, change |-> edit]

\* the edits a cursor makes in the coalescing runs
MergeEdits == {<<>>, <<"x">>, <<"\n">>, <<"x", "\n", "y">>}

\* the cursor ends an edit holding `change`; `began` is the text its change
\* starts from
hold_change(start, end, edit, change, began, op) ==
    /\ text' = Splice(text, start, end, edit)
    /\ cursors' = <<[change |-> <<change>>]>>
    /\ bases' = <<began>>
    /\ Step(op)
    /\ UNCHANGED <<tags, main_index, clearing_needed, moments, cur, tops, status>>

\* one edit of a cursor: the change is made from the selection, merged into
\* the change the cursor holds if one contains the other, and applied.
\* A build with overflow checks panics where move_end subtracts below zero.
edit_with_merge(start, end, edit, overflow_checks) ==
    /\ Running
    /\ Len(text) - (end - start) + Len(edit) <= MaxLen
    /\ IF cursors[1].change = <<>>
       THEN hold_change(start, end, edit, Change_of_lines(edit, start, end, text), text, "first")
       ELSE \E R \in {EditCursor_try_merge(cursors[1].change[1],
                                           Change_of_lines(edit, start, end, text))} :
               IF overflow_checks /\ ~R.checked THEN Panic("try_merge")
               ELSE hold_change(start, end, edit, R.change,
                                IF R.branch = "replaced" THEN text ELSE bases[1],
                                IF R.branch = "orig" THEN "merged_orig"
                                ELSE IF R.branch = "edit" THEN "merged_edit" ELSE "replaced")

InitMerge ==
    /\ text \in {<<"a", "b">>, <<"a", "\n", "b">>}
    /\ cursors = <<[change |-> <<>>]>>
    /\ bases = <<text>>
    /\ main_index = 0
    /\ tags = {}
    /\ clearing_needed = FALSE
    /\ moments = <<>> /\ cur = 0 /\ tops = <<>>
    /\ status = "run"
    /\ last = [op |-> "init"]
    /\ nops = 0
    /\ builder = Builder_default /\ print_info = PrintInfo_default
    /\ cfg = PrintCfg_default /\ RestInit

NextMerge ==
    \E start, end \in 0..Len(text), edit \in MergeEdits, overflow_checks \in BOOLEAN :
        start <= end /\ edit_with_merge(start, end, edit, overflow_checks)

SpecMerge == InitMerge /\ [][NextMerge]_vars

\* applying a change kept by lines: start..taken_end gives way to the added text
apply_lines(t, c) ==
    Splice(t, c.splice.start.byte, c.splice.taken_end.byte, concat_lines(c.added_text))

\* C8: once an edit B is coalesced into the change A the cursor holds,
\* applying the coalesced change to the text A started from gives the text
\* that applying A and then B gave.
C8_CoalescingPreservesSemantics ==
    (status = "run" /\ last.op \in {"merged_orig", "merged_edit"}) =>
        apply_lines(bases[1], cursors[1].change[1]) = text

\* a coalesced change over more than one line, in either direction
C8_Witness ==
    /\ status = "run" /\ last.op = "merged_edit"
    /\ Len(cursors[1].change[1].taken_text) >= 2
    /\ cursors[1].change[1].added_text # cursors[1].change[1].taken_text
    /\ apply_lines(bases[1], cursors[1].change[1]) = text

\* ------------------------------------------------------------- duat: EditHelper
\* duat text/mod.rs cursor_tags(is_main): caret, selection start and end tags;
\* both branches give the caret the MainCursor tag
cursor_tags(is_main) ==
    IF is_main THEN [caret |-> "MainCursor", start |-> "PushForm(MAIN_SEL)",
                     end |-> "PopForm(MAIN_SEL)"]
    ELSE [caret |-> "MainCursor", start |-> "PushForm(EXTRA_SEL)",
          end |-> "PopForm(EXTRA_SEL)"]

\* the tags add_cursor_tags inserts for one cursor: the first two of
\* (start, end, caret) are skipped when nothing is selected
tags_of(c, is_main) ==
    IF range_start(c) = range_end(c)
    THEN {[pos |-> c.caret, tag |-> cursor_tags(is_main).caret, marker |-> "cursors"]}
    ELSE {[pos |-> range_start(c), tag |-> cursor_tags(is_main).start, marker |-> "cursors"],
          [pos |-> range_end(c), tag |-> cursor_tags(is_main).end, marker |-> "cursors"],
          [pos |-> c.caret, tag |-> cursor_tags(is_main).caret, marker |-> "cursors"]}

\* Text::add_cursor_tags(cursors)
add_cursor_tags(tg, cs, mi) ==
    tg \cup UNION {tags_of(cs[i], i = mi + 1) : i \in 1..Len(cs)}

\* remove_cursor_tags that leaves the tags in
remove_cursor_tags_kept(tg, cs) == tg

\* remove_cursor_tags that forgets the end of the selections
remove_cursor_tags_start(tg, cs) ==
    {t \in tg : t.marker # "cursors" \/ \A i \in 1..Len(cs) : t.pos # range_start(cs[i])}

\* Text::remove_cursor_tags(cursors): Tags::remove_on, for the marker of the
\* cursors, at the start and the end of every cursor
remove_cursor_tags(tg, cs) ==
    {t \in tg : \/ t.marker # "cursors"
                \/ \A i \in 1..Len(cs) : t.pos # range_start(cs[i]) /\ t.pos # range_end(cs[i])}

\* an EditHelper dropped without its Drop running
drop_skipped(tg, cs, mi) == tg

\* Drop for EditHelper
EditHelper_drop(tg, cs, mi) == add_cursor_tags(tg, cs, mi)

\* Cursor::move_hor of duat: the caret moves by count and stays in the text
move_hor_in(c, count, len) == [c EXCEPT !.caret = Max(0, Min(len, c.caret + count))]

\* a Diff that leaves the pending cursor where it was
Diff_shift_cursor_none(c, bytes, len) == c

\* Diff::shift_cursor: the shifted assoc_index is dropped; caret and anchor
\* move by diff.bytes
Diff_shift_cursor(c, bytes, len) ==
    IF c.anchor = None THEN move_hor_in(c, bytes, len)
    ELSE switch_ends(move_hor_in(switch_ends(move_hor_in(c, bytes, len)), bytes, len))

\* a replace that always leaves the caret at the end and no anchor
Helper_replace_ends_caret(S1, i, c, change) ==
    [S1 EXCEPT !.cursors[i].anchor = None, !.cursors[i].caret = added_end(change)]

\* the end of duat's Editor::replace
Helper_replace_ends(S1, i, c, change) ==
    IF c.anchor # None /\ c.anchor >= c.caret /\ Len(change.added) > 0
    THEN [S1 EXCEPT !.cursors[i].anchor = added_end(change)]
    ELSE [S1 EXCEPT !.cursors[i].anchor = None, !.cursors[i].caret = added_end(change)]

\* duat's Editor::replace on cursor i of the work list
Helper_replace(S, i, edit) ==
    Helper_replace_ends(Editor_edit(S, i, Change_new(edit, range_start(S.cursors[i]),
                                                     range_end(S.cursors[i]), S.text)),
                        i, S.cursors[i],
                        Change_new(edit, range_start(S.cursors[i]), range_end(S.cursors[i]),
                                   S.text))

\* the end of duat's Editor::insert: the caret stays, an anchor at or after
\* it moves by the change
Helper_insert_ends(S1, i, c, diff) ==
    IF c.anchor # None /\ c.anchor >= c.caret
    THEN [S1 EXCEPT !.cursors[i].anchor =
             switch_ends(move_hor_in(switch_ends(c), diff, Len(S1.text))).anchor]
    ELSE S1

\* duat's Editor::insert on cursor i of the work list
Helper_insert(S, i, edit) ==
    Helper_insert_ends(Editor_edit(S, i, Change_new(edit, S.cursors[i].caret,
                                                    S.cursors[i].caret, S.text)),
                       i, S.cursors[i], Len(edit))

\* running an Editor closure of duat on cursor i of the work list
helper_run(f, S, i) ==
    IF f.kind = "insert" THEN Helper_insert(S, i, f.str) ELSE Helper_replace(S, i, f.str)

RECURSIVE helper_edit_from(_, _, _, _)
\* the loop of EditHelper::edit_on_each from cursor i on: the cursor is
\* shifted by the Diff and handed to the closure, which panics on cursor `stop`
helper_edit_from(S, i, f, stop) ==
    IF i > Len(S.cursors) \/ i = stop THEN S
    ELSE helper_edit_from(
             helper_run(f, [S EXCEPT !.cursors[i] = Diff_shift_cursor(@, S.chars, Len(S.text))], i),
             i + 1, f, stop)

\* Cursors::insert_removed(was_main, cursor): the cursor goes back in order
\* and takes in the cursors it meets
insert_removed(cs, c) ==
    clear_intersections(
        InsertAt(cs, 1 + Cardinality({j \in 1..Len(cs) : range_start(cs[j]) <= range_start(c)}), c))

RECURSIVE reinsert(_, _, _, _)
\* insert_removed for the cursors i .. upto of the work list
reinsert(out, work, i, upto) ==
    IF i > upto THEN out ELSE reinsert(insert_removed(out, work[i]), work, i + 1, upto)

\* Cursors::main_index once the cursors are back: the one that was main
main_of(cs, mi) ==
    IF \E i \in 1..Len(cs) : cs[i].is_main
    THEN (CHOOSE i \in 1..Len(cs) : cs[i].is_main) - 1
    ELSE mi

\* the closures handed to move_each / move_nth
helper_mover(f, c, len) ==
    CASE f = "left" -> move_hor_in(unset_anchor(c), 0 - 1, len)
      [] f = "right" -> move_hor_in(unset_anchor(c), 1, len)
      [] f = "swap_ends" -> switch_ends(c)
      [] OTHER -> move_hor_in(IF c.anchor = None THEN set_anchor(c) ELSE c, 1, len)

\* what a batch of the helper writes back; `unwinding` when a closure panicked
\* and the helper is dropped by the unwinding
helper_store(S, cs, rec, unwinding) ==
    /\ text' = S.text
    /\ moments' = S.moments /\ cur' = S.cur /\ bases' = S.bases /\ tops' = S.tops
    /\ cursors' = cs
    /\ main_index' = main_of(cs, main_index)
    /\ status' = IF unwinding THEN "unwound" ELSE status
    /\ tags' = IF unwinding THEN EditHelper_drop(tags, cs, main_of(cs, main_index)) ELSE tags
    /\ last' = rec /\ nops' = nops + 1 /\ Apart
    /\ UNCHANGED clearing_needed

\* EditHelper::new
EditHelper_new ==
    /\ status = "closed" /\ nops < MaxOps
    /\ status' = "open"
    /\ tags' = remove_cursor_tags(tags, cursors)
    /\ Step("new")
    /\ UNCHANGED <<text, cursors, main_index, clearing_needed, moments, cur, bases, tops>>

\* EditHelper::edit_on_each; the closure panics on cursor `stop` (0: on none)
EditHelper_edit_on_each(f, stop) ==
    /\ status = "open" /\ nops < MaxOps
    /\ \E S \in {helper_edit_from(Batch(Stamp(cursors, main_index)), 1, f, stop)} :
          helper_store(S, reinsert(<<>>, S.cursors, 1,
                                   IF stop = 0 THEN Len(S.cursors) ELSE stop - 1),
                       [op |-> "edit_on_each"], stop # 0)

\* Cursors::shift(n, diff): the cursors after the n-th move by the edit
shift_after(cs, n, bytes, len) ==
    [j \in 1..Len(cs) |-> IF j > n + 1 THEN Diff_shift_cursor(cs[j], bytes, len) ELSE cs[j]]

\* EditHelper::edit_on_nth; Cursors::remove(n) answers None past the end and
\* the helper panics
EditHelper_edit_on_nth(f, n) ==
    /\ status = "open" /\ nops < MaxOps
    /\ IF n >= Len(cursors)
       THEN /\ status' = "unwound"
            /\ tags' = EditHelper_drop(tags, cursors, main_index)
            /\ Step("edit_on_nth")
            /\ UNCHANGED <<text, cursors, main_index, clearing_needed, moments, cur, bases, tops>>
       ELSE \E S \in {helper_run(f, Batch(Stamp(cursors, main_index)), n + 1)} :
               helper_store(S, shift_after(insert_removed(RemoveAt(S.cursors, n + 1),
                                                          S.cursors[n + 1]),
                                           n, S.chars, Len(S.text)),
                            [op |-> "edit_on_nth", f |-> f, was |-> cursors[n + 1],
                             now |-> S.cursors[n + 1], text |-> text],
                            FALSE)

\* EditHelper::move_each
EditHelper_move_each(f) ==
    /\ status = "open" /\ nops < MaxOps
    /\ \E work \in {Stamp(cursors, main_index)} :
          \E moved \in {[i \in 1..Len(work) |-> helper_mover(f, work[i], Len(text))]} :
             helper_store(Batch(moved), reinsert(<<>>, moved, 1, Len(moved)),
                          [op |-> "move_each"], FALSE)

\* EditHelper::move_nth
EditHelper_move_nth(f, n) ==
    /\ status = "open" /\ nops < MaxOps
    /\ n < Len(cursors)
    /\ \E work \in {Stamp(cursors, main_index)} :
          helper_store(Batch(work),
                       insert_removed(RemoveAt(work, n + 1),
                                      helper_mover(f, work[n + 1], Len(text))),
                       [op |-> "move_nth"], FALSE)

\* the EditHelper goes out of scope: Drop for EditHelper
Drop ==
    /\ status = "open" /\ nops < MaxOps
    /\ status' = "closed"
    /\ tags' = EditHelper_drop(tags, cursors, main_index)
    /\ last' = [op |-> "drop", after |-> last.op]
    /\ nops' = nops + 1 /\ Apart
    /\ UNCHANGED <<text, cursors, main_index, clearing_needed, moments, cur, bases, tops>>

\* the buffer of the three-cursor scenario and its carets
S2Text == <<"a", "a", "a", "\n", "b", "b", "b", "\n", "c", "c", "c">>

S2Carets == <<1, 5, 9>>

\* the closures handed to edit_on_each / edit_on_nth
HelperEdits == {[kind |-> "insert", str |-> <<"X">>],
                [kind |-> "replace", str |-> <<"y", "z">>],
                [kind |-> "replace", str |-> <<>>]}

HelperMoves == {"left", "right", "sel_right", "swap_ends"}

\* a File with its cursors tagged, no EditHelper alive
InitHelper ==
    /\ \E b \in {[text |-> <<"a", "b">>, carets |-> <<1>>],
                 [text |-> <<"a", "b", "c">>, carets |-> <<0, 2>>],
                 [text |-> S2Text, carets |-> S2Carets]} :
          /\ text = b.text
          /\ cursors = [i \in 1..Len(b.carets) |-> Cursor_new(b.carets[i])]
    /\ main_index \in 0..(Len(cursors) - 1)
    /\ tags = add_cursor_tags({}, cursors, main_index)
    /\ clearing_needed = FALSE
    /\ moments = <<>> /\ cur = 0 /\ bases = <<>> /\ tops = <<>>
    /\ status = "closed"
    /\ last = [op |-> "init"]
    /\ nops = 0
    /\ builder = Builder_default /\ print_info = PrintInfo_default
    /\ cfg = PrintCfg_default /\ RestInit

NextHelper ==
    \/ EditHelper_new
    \/ \E f \in HelperEdits : \E stop \in 0..Len(cursors) : EditHelper_edit_on_each(f, stop)
    \/ \E f \in HelperEdits : \E n \in 0..Len(cursors) : EditHelper_edit_on_nth(f, n)
    \/ \E f \in HelperMoves : EditHelper_move_each(f)
    \/ \E f \in HelperMoves : \E n \in 0..Len(cursors) : EditHelper_move_nth(f, n)
    \/ new_moment
    \/ undo
    \/ redo
    \/ Drop

SpecHelper == InitHelper /\ [][NextHelper]_vars

\* ------------------------------------------------------------- tag claims
\* C4: a batch removes the cursor tags on entry and puts them back on every
\* way out: when the helper is gone, after a normal return or after a panic
\* of the closure, the Text holds the tags of the current cursors and no other.
C4_TagsMatchCursors ==
    status \in {"closed", "unwound"} =>
        tags = UNION {tags_of(cursors[i], i = main_index + 1) : i \in 1..Len(cursors)}

\* the closure of edit_on_each panicked after it had edited on a cursor
C4_Witness ==
    /\ status = "unwound" /\ last.op = "edit_on_each"
    /\ cur >= 1 /\ Len(moments[cur]) >= 1
    /\ Len(cursors) >= 1
    /\ tags # {}

\* no cursor tag sits where no current cursor has its start, end or caret,
\* and every cursor has its caret tag
NoStaleTags ==
    /\ \A t \in tags : \E i \in 1..Len(cursors) :
          t.pos \in {range_start(cursors[i]), range_end(cursors[i]), cursors[i].caret}
    /\ \A i \in 1..Len(cursors) : \E t \in tags : t.pos = cursors[i].caret

\* C5: the text changes (apply_change / undo_change, undo and redo included)
\* only while the cursor tags are out, and once the edit is over the tags are
\* back with none of them at a position no current cursor occupies.
C5_MutationsBracketed ==
    [][/\ text' # text => tags = {}
       /\ status' \in {"closed", "unwound"} => NoStaleTags']_vars

\* the helper was dropped right after an undo or a redo that changed the text
C5_Witness ==
    /\ status = "closed" /\ last.op = "drop"
    /\ last.after \in {"undo", "redo"}
    /\ tags # {}

\* the first batch on the three-cursor buffer was edit_on_each(|e| e.insert("X"))
S2Ran ==
    /\ status = "open" /\ nops = 2 /\ last.op = "edit_on_each"
    /\ cur = 1 /\ Len(moments[1]) = 3
    /\ bases[1] = [text |-> S2Text, carets |-> Carets([i \in 1..3 |-> Cursor_new(S2Carets[i])])]
    /\ \A i \in 1..3 : moments[1][i].added = <<"X">>

S2After == <<"a", "X", "a", "a", "\n", "b", "X", "b", "b", "\n", "c", "X", "c", "c">>

\* C6: on "aaa\nbbb\nccc" with cursors at chars 1, 5 and 9,
\* edit_on_each(|e| e.insert("X")) gives "aXaa\nbXbb\ncXcc"; each pending
\* cursor is shifted by the edits made before it and insert leaves the caret
\* in front of what it inserted: the cursors are at chars 1, 6 and 11.
C6_InsertOnEach ==
    S2Ran => /\ text = S2After
             /\ Carets(cursors) = [i \in 1..3 |-> [caret |-> <<1, 6, 11>>[i], anchor |-> None]]

\* the batch has run on the three cursors
C6_Witness ==
    /\ S2Ran
    /\ text = S2After
    /\ Len(cursors) = 3 /\ cursors[3].caret = 11

\* C6 as stated: the cursors end at chars 2, 7 and 12
C6_CursorsAfterInserted ==
    S2Ran => /\ text = S2After
             /\ Carets(cursors) = [i \in 1..3 |-> [caret |-> <<2, 7, 12>>[i], anchor |-> None]]

\* C17: after Editor::insert(edit) on a cursor whose anchor is ahead of the
\* caret, the anchor has moved forward by exactly the characters of edit.
C17_InsertShiftsAnchor ==
    (status = "run" /\ last.op = "edit_on_nth" /\ last.f.kind = "insert"
        /\ last.was.anchor # None /\ last.was.anchor > last.was.caret) =>
        last.now.anchor = last.was.anchor + Len(last.f.str)

\* ------------------------------------------------------------- order claim
\* C11: after a move batch (move_nth, move_main, move_each) the cursor list is
\* in ascending order of caret offset.
C11_SortedByCaret ==
    (status = "run" /\ last.op \in {"move_each", "move_nth"}) =>
        \A i, j \in 1..Len(cursors) : i < j => cursors[i].caret <= cursors[j].caret

len_chars(buf) == Cardinality({i \in 1..Len(buf) : buf[i] # "A9"})

\* Tags::transform_range(old, new_end): the tags strictly inside old are
\* dropped, those at or after old.end move by new_end - old.end
transform_range(tg, start, end, new_end) ==
    {[t EXCEPT !.pos = IF t.pos >= end THEN t.pos + new_end - end ELSE t.pos] :
        t \in {u \in tg : ~(start < u.pos /\ u.pos < end)}}

\* Text::replace_range of duat: the bytes of old leave the buffer, the bytes of
\* the edit come in, the tags are transformed when the edit has another
\* number of characters than old
Text_replace_range(buf, tg, start, end, edit) ==
    [buf |-> Splice(buf, start, end, edit),
     tags |-> IF len_chars(edit) # end - start
              THEN transform_range(tg, start, end, start + len_chars(edit)) ELSE tg]

\* the names of the tags strictly inside a range
inside(tg, start, end) == {t.tag : t \in {u \in tg : start < u.pos /\ u.pos < end}}

\* what a change of the Text leaves in the state
Text_store(r, op, start, end, changes) ==
    /\ text' = r.buf
    /\ tags' = r.tags
    /\ moments' = changes
    /\ last' = [op |-> op, inside |-> inside(tags, start, end), before |-> tags]
    /\ nops' = nops + 1 /\ Apart
    /\ UNCHANGED <<cursors, main_index, clearing_needed, cur, bases, tops, status>>

\* a position is the start of a character of the buffer, or its end
on_boundary(buf, p) == p = Len(buf) \/ (p < Len(buf) /\ buf[p + 1] # "A9")

\* Text::insert_tag with a marker of the caller, at a character of the buffer
Text_insert_tag(b, tag) ==
    /\ status = "untagged" /\ nops < MaxOps
    /\ \A t \in tags : t.tag # tag
    /\ on_boundary(text, b)
    /\ tags' = tags \cup {[pos |-> b, tag |-> tag, marker |-> "caller"]}
    /\ last' = [op |-> "insert_tag", inside |-> {}, before |-> tags]
    /\ nops' = nops + 1 /\ Apart
    /\ UNCHANGED <<text, cursors, main_index, clearing_needed, moments, cur, bases, tops, status>>

\* Text::apply_change
Text_apply_change(start, end, edit) ==
    /\ status = "untagged" /\ nops < MaxOps
    /\ start <= end /\ end <= Len(text)
    /\ Len(moments) < MaxMoments
    /\ Len(text) - (end - start) + Len(edit) <= MaxLen
    /\ Text_store(Text_replace_range(text, tags, start, end, edit), "apply_change", start, end,
                  Append(moments, [start |-> start, taken |-> Slice(text, start, end),
                                   added |-> edit]))

\* Text::undo_change of the change applied last, nothing having shifted it
Text_undo_change ==
    /\ status = "untagged" /\ nops < MaxOps
    /\ moments # <<>>
    /\ \E c \in {moments[Len(moments)]} :
          /\ c.start + len_chars(c.added) <= Len(text)
          /\ Text_store(Text_replace_range(text, tags, c.start, c.start + len_chars(c.added),
                                           c.taken),
                        "undo_change", c.start, c.start + len_chars(c.added),
                        SubSeq(moments, 1, Len(moments) - 1))

\* Text::add_cursor_tags, called with the tags of the cursors out
Text_add_cursor_tags ==
    /\ status = "untagged" /\ nops < MaxOps
    /\ status' = "tagged"
    /\ tags' = add_cursor_tags(tags, cursors, main_index)
    /\ last' = [op |-> "add_cursor_tags", inside |-> {}, before |-> tags]
    /\ nops' = nops + 1 /\ Apart
    /\ UNCHANGED <<text, cursors, main_index, clearing_needed, moments, cur, bases, tops>>

\* Text::remove_cursor_tags, called with the tags of the cursors in
Text_remove_cursor_tags ==
    /\ status = "tagged" /\ nops < MaxOps
    /\ status' = "untagged"
    /\ tags' = remove_cursor_tags(tags, cursors)
    /\ last' = [op |-> "remove_cursor_tags", inside |-> {}, before |-> last.before]
    /\ nops' = nops + 1 /\ Apart
    /\ UNCHANGED <<text, cursors, main_index, clearing_needed, moments, cur, bases, tops>>

\* the texts handed to apply_change: nothing, two bytes, a character of two bytes
TextEdits == {<<>>, <<"x", "y">>, <<"C3", "A9">>}

\* cursor lists: no anchor, anchor behind, anchor ahead, anchor on the caret
TextCursors ==
    {<<[caret |-> 1, anchor |-> None]>>, <<[caret |-> 2, anchor |-> 0]>>,
     <<[caret |-> 0, anchor |-> 2]>>, <<[caret |-> 1, anchor |-> 1]>>,
     <<[caret |-> 0, anchor |-> None], [caret |-> 1, anchor |-> 2]>>}

\* a Text whose cursors are not tagged yet
InitText ==
    /\ text \in {<<"a", "b", "c">>, <<"C3", "A9", "b">>}
    /\ \E cs \in TextCursors :
          cursors = [i \in 1..Len(cs) |-> [Cursor_new(cs[i].caret) EXCEPT !.anchor = cs[i].anchor]]
    /\ main_index \in 0..(Len(cursors) - 1)
    /\ tags = {}
    /\ clearing_needed = FALSE
    /\ moments = <<>> /\ cur = 0 /\ bases = <<>> /\ tops = <<>>
    /\ status = "untagged"
    /\ last = [op |-> "init", inside |-> {}, before |-> {}]
    /\ nops = 0
    /\ builder = Builder_default /\ print_info = PrintInfo_default
    /\ cfg = PrintCfg_default /\ RestInit

NextText ==
    \/ \E b \in 0..Len(text) : Text_insert_tag(b, "t1")
    \/ \E start, end \in 0..Len(text) : \E edit \in TextEdits : Text_apply_change(start, end, edit)
    \/ Text_undo_change
    \/ Text_add_cursor_tags
    \/ Text_remove_cursor_tags

SpecText == InitText /\ [][NextText]_vars

\* C12: a change applied to a Text drops every tag whose offset lies strictly
\* inside the replaced range, whatever the lengths of the removed and of the
\* added text.
C12_InsideTagsDropped ==
    last.op \in {"apply_change", "undo_change"} => \A t \in tags : t.tag \notin last.inside

\* C13: after any sequence of applied and undone changes every tag offset is at
\* most the byte length of the buffer and lies on a UTF-8 character boundary.
C13_TagOffsetsValid == \A t \in tags : t.pos <= Len(text) /\ on_boundary(text, t.pos)

\* C14: add_cursor_tags(cursors) followed by remove_cursor_tags(cursors) leaves
\* the tags as they were before the add, for every cursor configuration.
C14_AddRemoveInverse == last.op = "remove_cursor_tags" => tags = last.before

\* the tags of a selection went in and out again, next to tags of the caller
C14_Witness ==
    /\ last.op = "remove_cursor_tags"
    /\ \E i \in 1..Len(cursors) : range_start(cursors[i]) # range_end(cursors[i])
    /\ \E t \in tags : \E i \in 1..Len(cursors) : t.pos = cursors[i].caret
    /\ tags = last.before

\* ------------------------------------------------------------- Builder
\* the tag that ends what a tag starts, "None" for the tags that start nothing
closing(tag) ==
    CASE tag = "PushForm(1)" -> "PopForm(1)"
      [] tag = "PushForm(2)" -> "PopForm(2)"
      [] tag = "StartAlignLeft" -> "EndAlignLeft"
      [] tag = "StartAlignCenter" -> "EndAlignCenter"
      [] OTHER -> "None"

\* Tags::insert(pos, tag) on the tags in order: after the tags up to pos
Tags_insert(tg, pos, tag) ==
    InsertAt(tg, 1 + Cardinality({i \in 1..Len(tg) : tg[i].pos <= pos}), [pos |-> pos, tag |-> tag])

\* the tags at or after the end move with the text that comes in there
\* (Tags::transform_range(end..end, new_end))
Tags_grow(tg, end, new_end) ==
    [i \in 1..Len(tg) |-> IF tg[i].pos >= end THEN [tg[i] EXCEPT !.pos = @ + new_end - end]
                          ELSE tg[i]]

\* one tag of the body of Builder::push_tag, and of the loop of push_text:
\* the tag that closes the last one of its kind goes in first
Builder_tag(b, pos, tag, is_form, is_align) ==
    LET inverted == IF is_form THEN b.last_form ELSE IF is_align THEN b.last_align ELSE "None"
        tg == IF inverted # "None" THEN Tags_insert(b.tags, pos, inverted) ELSE b.tags
    IN [b EXCEPT !.tags = Tags_insert(tg, pos, tag),
                 !.last_form = IF is_form THEN closing(tag) ELSE @,
                 !.last_align = IF is_align THEN closing(tag) ELSE @]

RECURSIVE push_entries(_, _, _, _)
\* the loop of Builder::push_text over the tags of the Text pushed: an end tag
\* the builder was about to add itself is not added twice
push_entries(b, end, entries, i) ==
    IF i > Len(entries) THEN b
    ELSE LET e == entries[i]
             b1 == IF e.tag \in {"PushForm(1)", "PushForm(2)"}
                   THEN Builder_tag(b, end + e.pos, e.tag, TRUE, FALSE)
                   ELSE IF e.tag \in {"StartAlignLeft", "StartAlignCenter"}
                   THEN Builder_tag(b, end + e.pos, e.tag, FALSE, TRUE)
                   ELSE IF e.tag \in {"PopForm(1)", "PopForm(2)"} /\ b.last_form = e.tag
                   THEN [b EXCEPT !.last_form = "None", !.tags = Tags_insert(@, end + e.pos, e.tag)]
                   ELSE IF e.tag \in {"EndAlignLeft", "EndAlignCenter"} /\ b.last_align = e.tag
                   THEN [b EXCEPT !.last_align = "None", !.tags = Tags_insert(@, end + e.pos, e.tag)]
                   ELSE [b EXCEPT !.tags = Tags_insert(@, end + e.pos, e.tag)]
         IN push_entries(b1, end, entries, i + 1)

\* what a call on the Builder leaves in the state
Builder_store(b, op) ==
    /\ builder' = b
    /\ status' = IF op = "finish" THEN "finished" ELSE status
    /\ last' = [op |-> op]
    /\ nops' = nops + 1
    /\ UNCHANGED <<text, tags, cursors, main_index, clearing_needed, moments, cur, bases, tops,
                   print_info, cfg, Rest>>

Building == status = "building" /\ nops < MaxOps

\* Builder::push_str: insert_str at the end of the text
Builder_push_str(str) ==
    /\ Building
    /\ Builder_store([builder EXCEPT
                         !.text = @ \o str,
                         !.tags = IF Len(str) # 0
                                  THEN Tags_grow(@, len_chars(builder.text),
                                                 len_chars(builder.text) + len_chars(str))
                                  ELSE @],
                     "push_str")

\* Builder::push_tag
Builder_push_tag(tag) ==
    /\ Building
    /\ Builder_store(Builder_tag(builder, len_chars(builder.text), tag,
                                 tag \in {"PushForm(1)", "PushForm(2)"},
                                 tag \in {"StartAlignLeft", "StartAlignCenter"}),
                     "push_tag")

\* Builder::push_text
Builder_push_text(t) ==
    /\ Building
    /\ \E end \in {len_chars(builder.text)} :
          Builder_store(push_entries([builder EXCEPT
                                         !.text = @ \o t.text,
                                         !.tags = Tags_grow(@, end, end + len_chars(t.text))],
                                     end, t.tags, 1),
                        "push_text")

\* Builder::clear: Text::clear, and last_form is forgotten
Builder_clear ==
    /\ Building
    /\ Builder_store([builder EXCEPT !.text = <<>>, !.tags = <<>>, !.last_form = "None"], "clear")

\* Builder::finish
Builder_finish ==
    /\ Building
    /\ \E end \in {len_chars(builder.text)} :
          \E tg \in {IF builder.last_form # "None"
                     THEN Tags_insert(builder.tags, end, builder.last_form) ELSE builder.tags} :
             Builder_store([builder EXCEPT
                               !.tags = IF builder.last_align # "None"
                                        THEN Tags_insert(tg, end, builder.last_align) ELSE tg],
                           "finish")

\* the Texts handed to push_text: plain, and one a Builder has finished
BuilderTexts ==
    {[text |-> <<"a", "b">>, tags |-> <<>>],
     [text |-> <<"c">>, tags |-> <<[pos |-> 0, tag |-> "PushForm(2)"],
                                   [pos |-> 1, tag |-> "PopForm(2)"]>>]}

\* Builder::new
InitBuilder ==
    /\ text = <<>> /\ tags = {} /\ cursors = <<>> /\ main_index = 0
    /\ clearing_needed = FALSE
    /\ moments = <<>> /\ cur = 0 /\ bases = <<>> /\ tops = <<>>
    /\ status = "building"
    /\ last = [op |-> "new"]
    /\ nops = 0
    /\ builder = Builder_default /\ print_info = PrintInfo_default
    /\ cfg = PrintCfg_default /\ RestInit

NextBuilder ==
    \/ \E str \in {<<>>, <<"x", "y">>} : Builder_push_str(str)
    \/ \E tag \in {"PushForm(1)", "StartAlignLeft", "StartAlignCenter"} : Builder_push_tag(tag)
    \/ \E t \in BuilderTexts : Builder_push_text(t)
    \/ Builder_clear
    \/ Builder_finish

SpecBuilder == InitBuilder /\ [][NextBuilder]_vars

\* the tags `of` among the first n tags
tag_count(tg, of, n) == Cardinality({i \in 1..n : tg[i].tag \in of})

\* every opening tag has its closing tag after it, and no closing tag is alone
matched(tg, open, close) ==
    /\ tag_count(tg, open, Len(tg)) = tag_count(tg, close, Len(tg))
    /\ \A n \in 0..Len(tg) : tag_count(tg, close, n) <= tag_count(tg, open, n)

\* C15: the Text a Builder gives after any sequence of push_tag, push_text and
\* clear followed by finish() is balanced: every pushed form is matched by a later
\* pop of the same form and every pushed alignment by its end-alignment tag.
C15_BuilderBalanced ==
    status = "finished" =>
        /\ matched(builder.tags, {"PushForm(1)"}, {"PopForm(1)"})
        /\ matched(builder.tags, {"PushForm(2)"}, {"PopForm(2)"})
        /\ matched(builder.tags, {"StartAlignLeft", "StartAlignCenter"},
                   {"EndAlignLeft", "EndAlignCenter"})

\* ------------------------------------------------------------- Cursor::move_to and PrintInfo
\* In this part the text has lines: "\n" ends a line, a Pos is [ch, col, row]
\* (all characters are ASCII, so `byte` equals `ch` and is left out).

\* Rope::len_lines: the text after the last line break is a line too
len_lines(t) == 1 + Cardinality({i \in 1..Len(t) : t[i] = "\n"})

\* Rope::char_to_line
char_to_line(t, ch) == Cardinality({i \in 1..Min(ch, Len(t)) : t[i] = "\n"})

\* Rope::line_to_char; the line one past the last starts at the end of the rope
line_to_char(t, row) ==
    IF row = 0 THEN 0
    ELSE IF row >= len_lines(t) THEN Len(t)
    ELSE CHOOSE p \in 1..Len(t) : t[p] = "\n" /\ char_to_line(t, p) = row

\* #[derive(PartialOrd, Ord)] of Pos: by byte, ch, col, row
Pos_lt(a, b) ==
    \/ a.ch < b.ch
    \/ a.ch = b.ch /\ a.col < b.col
    \/ a.ch = b.ch /\ a.col = b.col /\ a.row < b.row

\* Cursor::move_to where the rope does not panic: rope.line(row).len_chars()
\* counts the line break of the line
Cursor_move_to(t, pos) ==
    LET row == Min(pos.row, len_lines(t))
        col == Min(pos.col, line_to_char(t, row + 1) - line_to_char(t, row))
    IN  [ch |-> line_to_char(t, row) + col, col |-> col, row |-> row]

\* Mover::move_to. rope.line_to_char(pos.row) panics for pos.row > len_lines and
\* rope.line(cur.row) for cur.row >= len_lines, after cur.row was assigned.
Mover_move_to(pos) ==
    /\ status = "run"
    /\ IF pos.row >= len_lines(text)
       THEN /\ status' = "panic"
            /\ cursors' = <<[cursors[1] EXCEPT !.row = Min(pos.row, len_lines(text))]>>
       ELSE /\ status' = status
            /\ cursors' = <<Cursor_move_to(text, pos)>>
    /\ last' = [op |-> "move_to", pos |-> pos]
    /\ UNCHANGED <<text, tags, main_index, clearing_needed, moments, cur, bases, tops, nops>>
    /\ Apart

\* WrapMethod::wrapping_cap: the width at which lines wrap
wrapping_cap(c) == IF c.wrap_method = "Capped" THEN c.cap ELSE c.width

\* bits(): char i starts a visual row when it is the first of its line or,
\* when lines wrap, when the chars before it have filled the width
starts_row(t, c, i) ==
    IF c.wrap_method = "NoWrap" THEN i = 0 \/ t[i] = "\n"
    ELSE (i - line_to_char(t, char_to_line(t, i))) % wrapping_cap(c) = 0

\* the indices scroll_ver_to_gap collects when it walks every line from pos.row
\* up: the chars that start a visual row, up to pos.ch
wrap_indices(t, c, pos) ==
    {i \in 0..Min(Min(pos.ch, Len(t) - 1), line_to_char(t, pos.row + 1) - 1) : starts_row(t, c, i)}

\* PrintInfo::scroll_ver_to_gap: the first char becomes the limit-th index
\* counted back from the target, or the last one collected
scroll_ver_to_gap(info, pos, S, c) ==
    LET limit == IF Pos_lt(pos, info.last_main) THEN c.y_gap + 1
                 ELSE Max(c.height - c.y_gap, 0)
        index == IF Cardinality(S) >= limit
                 THEN CHOOSE i \in S : Cardinality({j \in S : j >= i}) = limit
                 ELSE CHOOSE i \in S : \A j \in S : i <= j
    IN  IF S # {} /\ \/ index < info.first_char /\ Pos_lt(pos, info.last_main)
                     \/ index > info.first_char /\ Pos_lt(info.last_main, pos)
        THEN [info EXCEPT !.first_char = index]
        ELSE info

\* Label::get_width of line `row` up to max_index: each char is one cell wide;
\* with wrap_around the width starts again where words() starts a visual row
get_width(t, c, row, max_index, wrap_around) ==
    LET n == Max(Min(max_index, line_to_char(t, row + 1)) - line_to_char(t, row), 0)
    IN  IF wrap_around /\ c.wrap_method # "NoWrap" /\ n > 0
        THEN ((n - 1) % wrapping_cap(c)) + 1
        ELSE n

\* PrintInfo::scroll_hor_to_gap past its early returns for Width, Word and a cap
\* within the label
scroll_hor_to_gap(info, pos, t, c, target_dist) ==
    LET max_dist == c.width - (c.x_gap + 1)
        min_dist == info.x_shift + c.x_gap
        x_shift == IF target_dist < min_dist
                   THEN Max(info.x_shift - (min_dist - target_dist), 0)
                   ELSE IF target_dist > info.x_shift + max_dist
                   THEN target_dist - max_dist
                   ELSE info.x_shift
    IN  IF /\ target_dist >= min_dist
           /\ target_dist > info.x_shift + max_dist
           /\ get_width(t, c, pos.row, Len(t) + 1, FALSE) < c.width
        THEN info
        ELSE [info EXCEPT !.x_shift = IF c.wrap_method = "Capped"
                                      THEN Min(x_shift, c.cap - c.width)
                                      ELSE x_shift]

\* PrintInfo::scroll_to_gap
scroll_to_gap(info, pos, t, c) ==
    IF info.last_main = pos THEN info
    ELSE LET hor == IF \/ c.wrap_method \in {"Width", "Word"}
                       \/ c.wrap_method = "Capped" /\ c.cap <= c.width
                    THEN info
                    ELSE scroll_hor_to_gap(info, pos, t, c,
                                           get_width(t, c, pos.row, pos.ch, TRUE))
         IN  [scroll_ver_to_gap(hor, pos, wrap_indices(t, c, pos), c) EXCEPT !.last_main = pos]

\* the widget scrolls its label to the caret of the main cursor
PrintInfo_scroll_to_gap ==
    /\ status = "run"
    /\ print_info' = scroll_to_gap(print_info, cursors[1], text, cfg)
    /\ last' = [op |-> "scroll_to_gap", was |-> print_info]
    /\ UNCHANGED <<text, tags, cursors, main_index, clearing_needed, moments, cur, bases, tops,
                   status, nops, builder, cfg, Rest>>

\* scenario S4: a buffer of 1000 lines
S4Text == [i \in 1..999 |-> "\n"]

ViewTexts ==
    {<<"a", "b", "c", "d", "e", "f", "\n", "g", "\n", "\n", "h", "i", "\n", "j", "\n", "k">>,
     S4Text}

ViewCfgs(t) ==
    IF t = S4Text THEN {PrintCfg_default}
    ELSE {[wrap_method |-> w[1], cap |-> w[2], y_gap |-> 1, x_gap |-> 1, width |-> 4, height |-> 4] :
            w \in {<<"NoWrap", 0>>, <<"Width", 0>>, <<"Capped", 5>>, <<"Capped", 3>>}}

\* the positions handed to move_to: every line and column of the text, and
\* lines and columns past its end
ViewTargets(t) ==
    IF t = S4Text THEN {[row |-> r, col |-> 0] : r \in {0, 500, 999, 1000}}
    ELSE {[row |-> r, col |-> k] : r \in 0..len_lines(t), k \in 0..7}

InitView ==
    /\ text \in ViewTexts
    /\ cfg \in ViewCfgs(text)
    /\ cursors = <<[ch |-> 0, col |-> 0, row |-> 0]>>
    /\ print_info = PrintInfo_default
    /\ builder = Builder_default /\ RestInit
    /\ tags = {} /\ main_index = 0 /\ clearing_needed = FALSE
    /\ moments = <<>> /\ cur = 0 /\ bases = <<>> /\ tops = <<>>
    /\ status = "run" /\ last = [op |-> "new"] /\ nops = 0

NextView ==
    \/ \E pos \in ViewTargets(text) : Mover_move_to(pos)
    \/ PrintInfo_scroll_to_gap

SpecView == InitView /\ [][NextView]_vars

\* ------------------------------------------------------------- view claims
\* the caret is a position of the text: its line exists, its column is a
\* column of that line (the line break included, or the end of the last line)
\* and its char offset is the one of that line and column
valid_pos(t, p) ==
    /\ p.row < len_lines(t)
    /\ p.ch = line_to_char(t, p.row) + p.col
    /\ p.ch <= Len(t)
    /\ char_to_line(t, p.ch) = p.row

\* C18: after move_to(point) with any argument, a line or column past the end of
\* the text included, the call has returned and the caret is a valid position
\* of the text.
C18_CaretValid ==
    last.op = "move_to" => status = "run" /\ valid_pos(text, cursors[1])

\* the visual row of the label on which char `ch` is printed when the label
\* starts at first_char: the visual rows that start after first_char, up to ch
visual_row(t, c, first_char, ch) ==
    IF ch < first_char THEN 0 - 1
    ELSE Cardinality({i \in (first_char + 1)..ch : starts_row(t, c, i)})

\* C19: after PrintInfo is updated for a valid caret of the main cursor, the visual
\* row of the caret is at least y_gap rows from the top of the label, unless the
\* label already starts at the first char of the buffer, and at least y_gap rows
\* from its bottom; with 1000 lines, height 20, y_gap 3 and the cursor moved
\* from line 0 to line 500 the first visible line lies in [483, 497].
C19_Scrolloff ==
    (last.op = "scroll_to_gap" /\ valid_pos(text, cursors[1])) =>
        LET row == visual_row(text, cfg, print_info.first_char, cursors[1].ch)
        IN  /\ print_info.first_char > 0 => row >= cfg.y_gap
            /\ row >= 0
            /\ row <= cfg.height - 1 - cfg.y_gap
            /\ (text = S4Text /\ last.was.last_main.row = 0 /\ cursors[1].row = 500) =>
                   char_to_line(text, print_info.first_char) \in 483..497

\* the column of the label's row on which char `ch` is printed, before x_shift
visual_x(t, c, ch) ==
    LET k == ch - line_to_char(t, char_to_line(t, ch))
    IN  IF c.wrap_method = "NoWrap" THEN k ELSE k % wrapping_cap(c)

\* C20: under NoWrap or Capped, after PrintInfo is updated for a valid caret, the
\* caret's visual distance from the start of its line is at least x_shift + x_gap,
\* unless nothing is shifted out, and at most x_shift + W - x_gap - 1, unless the
\* line is narrower than the label or the cap stops the shift.
C20_CaretInGap ==
    (/\ last.op = "scroll_to_gap"
     /\ cfg.wrap_method \in {"NoWrap", "Capped"}
     /\ valid_pos(text, cursors[1])) =>
        LET dist == visual_x(text, cfg, cursors[1].ch)
            row == char_to_line(text, cursors[1].ch)
        IN  /\ print_info.x_shift > 0 => dist >= print_info.x_shift + cfg.x_gap
            /\ \/ dist <= print_info.x_shift + cfg.width - cfg.x_gap - 1
               \/ line_to_char(text, row + 1) - line_to_char(text, row) < cfg.width
               \/ cfg.wrap_method = "Capped" /\ print_info.x_shift >= cfg.cap - cfg.width

\* ------------------------------------------------------------- parsec-core: PrintInfo::update
\* The PrintInfo of parsec-core under WrapMethod::NoWrap: a line is one visual
\* row (wrap_count is 0) and char_at_wrap(line, 0) is the first char of the line.

\* PrintInfo::scroll_up_to_gap
scroll_up_to_gap(info, target, t, c) ==
    LET max_dist == c.y_gap + 1
        index == target.row - (max_dist - 1)
    IN  IF index < 0 THEN [info EXCEPT !.first_char = 0]
        ELSE IF line_to_char(t, index) < info.first_char
        THEN [info EXCEPT !.first_char = line_to_char(t, index)]
        ELSE info

\* PrintInfo::scroll_down_to_gap: the walk up from the target stops at the first
\* line that starts before first_char
scroll_down_to_gap(info, target, t, c) ==
    LET max_dist == c.height - c.y_gap
        index == target.row - (max_dist - 1)
    IN  IF /\ index >= 0
           /\ \A r \in (index + 1)..target.row : line_to_char(t, r) >= info.first_char
        THEN [info EXCEPT !.first_char = line_to_char(t, index)]
        ELSE info

\* PrintInfo::update: under NoWrap the horizontal scroll runs before the target
\* is compared with last_main
PrintInfo_update ==
    /\ status = "run"
    /\ LET target == cursors[1]
           hor == [print_info EXCEPT
                      !.x_shift = Max(target.ch - line_to_char(text, target.row)
                                      - (cfg.width - cfg.x_gap), 0)]
           ver == IF Pos_lt(target, hor.last_main) THEN scroll_up_to_gap(hor, target, text, cfg)
                  ELSE IF Pos_lt(hor.last_main, target)
                  THEN scroll_down_to_gap(hor, target, text, cfg)
                  ELSE hor
       IN  print_info' = [ver EXCEPT !.last_main = target]
    /\ last' = [op |-> "update", was |-> print_info]
    /\ UNCHANGED <<text, tags, cursors, main_index, clearing_needed, moments, cur, bases, tops,
                   status, nops, builder, cfg, Rest>>

\* the terminal gives the label a new width
Label_resize(width) ==
    /\ status = "run"
    /\ cfg.width # width
    /\ cfg' = [cfg EXCEPT !.width = width]
    /\ last' = [op |-> "resize"]
    /\ UNCHANGED <<text, tags, cursors, main_index, clearing_needed, moments, cur, bases, tops,
                   status, nops, builder, print_info, Rest>>

InitUpdate ==
    /\ InitView
    /\ text # S4Text
    /\ cfg.wrap_method = "NoWrap"

NextUpdate ==
    \/ \E pos \in {p \in ViewTargets(text) : p.col \in {0, 2, 5}} : Mover_move_to(pos)
    \/ PrintInfo_update
    \/ \E width \in {4, 6} : Label_resize(width)

SpecUpdate == InitUpdate /\ [][NextUpdate]_vars

\* C21: updating PrintInfo with a target equal to last_main is a no-op:
\* first_char, x_shift and last_main are all unchanged.
C21_SameTargetNoOp ==
    (last.op \in {"update", "scroll_to_gap"} /\ last.was.last_main = cursors[1]) =>
        print_info = last.was

\* ------------------------------------------------------------- words()
\* The iterator that wraps by words, over a text without tabs and indentation
\* (every char is one cell wide and the indent is 0).  `words` holds what the
\* closure captures: x, next_line, the chars of the word still to be given
\* (finished_word, first to last), the index of the next char of the inner
\* iterator, and the indices given with a new line so far.

\* cfg.word_chars of PrintCfg::default: letters and '_'
is_word_char(char) == char \notin {" ", "\n"}

\* the word is given whole, at the start of a row, when the row has no room for it
word_wraps_never(x, word_len, width) == FALSE

\* words(): the test that puts the word on a new visual row
word_wraps(x, word_len, width) == x + word_len > width

\* one call of the closure of words(); it returns None at the end of the text
words_next ==
    /\ status = "run"
    /\ words.finished_word # <<>> \/ words.next < Len(text)
    /\ LET width == wrapping_cap(cfg)
           i == words.next
           e == CHOOSE k \in i..Len(text) :
                    /\ \A j \in (i + 1)..k : is_word_char(text[j])
                    /\ k = Len(text) \/ ~is_word_char(text[k + 1])
           word_len == IF e > i THEN e - i ELSE 1
           nl == words.next_line \/ word_wraps(words.x, word_len, width)
       IN  IF words.finished_word # <<>>
           THEN LET ret == words.x + 1 > width
                IN  words' = [words EXCEPT
                        !.x = IF ret THEN 1 ELSE @ + 1,
                        !.finished_word = Tail(@),
                        !.new_lines = IF ret THEN @ \cup {Head(words.finished_word)} ELSE @]
           ELSE IF e = i
           THEN words' = [words EXCEPT
                    !.x = (IF nl THEN 0 ELSE @) + word_len,
                    !.next_line = text[i + 1] = "\n",
                    !.next = i + 1,
                    !.new_lines = IF nl THEN @ \cup {i} ELSE @]
           ELSE words' = [words EXCEPT
                    !.x = (IF nl THEN 0 ELSE @) + 1,
                    !.next_line = IF nl THEN FALSE ELSE @,
                    !.finished_word = [k \in 1..(e - i - 1) |-> i + k],
                    !.next = e,
                    !.new_lines = IF nl THEN @ \cup {i} ELSE @]
    /\ last' = [op |-> "words"]
    /\ UNCHANGED <<text, tags, cursors, main_index, clearing_needed, moments, cur, bases, tops,
                   status, nops, builder, print_info, cfg, layout, commands, Others>>

\* scenario S5: "foo barbaz" on a label 6 wide
S5Text == <<"f", "o", "o", " ", "b", "a", "r", "b", "a", "z">>

InitWords ==
    /\ text \in {S5Text} \cup UNION {[1..n -> {"a", " ", "\n"}] : n \in 1..MaxLen}
    /\ cfg \in {[PrintCfg_default EXCEPT !.wrap_method = "Word", !.width = w] :
                  w \in IF text = S5Text THEN {6} ELSE {2, 3}}
    /\ words = Words_default /\ layout = [solver |-> {}] /\ commands = [list |-> <<>>]
    /\ OthersInit
    /\ cursors = <<>> /\ tags = {} /\ main_index = 0 /\ clearing_needed = FALSE
    /\ moments = <<>> /\ cur = 0 /\ bases = <<>> /\ tops = <<>>
    /\ builder = Builder_default /\ print_info = PrintInfo_default
    /\ status = "run" /\ last = [op |-> "new"] /\ nops = 0

NextWords == words_next

SpecWords == InitWords /\ [][NextWords]_vars

\* the words of the text: maximal runs i..j (indices from 0) of word chars
is_word(t, i, j) ==
    /\ \A k \in i..j : is_word_char(t[k + 1])
    /\ i = 0 \/ ~is_word_char(t[i])
    /\ j + 1 = Len(t) \/ ~is_word_char(t[j + 2])

\* the first char of the visual row of char i
first_of_row(i) == CHOOSE w \in words.new_lines : w <= i /\ \A v \in words.new_lines : v <= i => v <= w

MaxRects == 4

\* how many times a defined constraint may be changed
MaxChanges == 1

\* Option<Constraint>::None; a Constraint is [kind, n, m]: Length(n), Min(n),
\* Max(n), Percent(n), Ratio(n, m)
NoConstraint == [kind |-> "None", n |-> 0, m |-> 0]

NoCon == [id |-> 0 - 1, kind |-> "None", a |-> 0, b |-> 0, axis |-> "None", c |-> NoConstraint]

\* Solver::add_constraint(s): Err(DuplicateConstraint) for a constraint it holds
solver_add(L, cs) ==
    [L EXCEPT !.solver = @ \cup cs,
              !.err = IF @ = "None" /\ cs \cap L.solver # {} THEN "DuplicateConstraint" ELSE @]

\* Solver::remove_constraint: Err(UnknownConstraint) for one it does not hold
solver_remove(L, cs) ==
    [L EXCEPT !.solver = @ \ cs,
              !.err = IF @ = "None" /\ ~(cs \subseteq L.solver) THEN "UnknownConstraint" ELSE @]

\* a new constraint: it takes the identity `id`
con(id, kind, a, b, axis, c) ==
    [id |-> id, kind |-> kind, a |-> a, b |-> b, axis |-> axis, c |-> c]

\* the edge constraints prepare_child leaves a child without: none that ties
\* its end
edge_cons_open(L, parent, i) ==
    LET P == L.rects[parent]
        R == L.rects[P.children[i].rect]
    IN  {con(L.cons, "edges", R.vp, P.vp, P.axis, NoConstraint)}
        \cup (IF i = 1 THEN {con(L.cons + 1, "first", R.vp, P.vp, P.axis, NoConstraint)} ELSE {})

\* the edge constraints prepare_child gives the child at position i (from 1):
\* set_constraints, the start of the first child, and the end tied to the next
\* child's start or to the parent's end
edge_cons(L, parent, i) ==
    LET P == L.rects[parent]
        R == L.rects[P.children[i].rect]
    IN  {con(L.cons, "edges", R.vp, P.vp, P.axis, NoConstraint)}
        \cup (IF i = 1 THEN {con(L.cons + 1, "first", R.vp, P.vp, P.axis, NoConstraint)} ELSE {})
        \cup (IF i < Len(P.children)
              THEN {con(L.cons + 2, "next", R.vp, L.rects[P.children[i + 1].rect].vp, P.axis,
                        NoConstraint)}
              ELSE {con(L.cons + 2, "last", R.vp, P.vp, P.axis, NoConstraint)})

\* prepare_child for the children of `parent` at the positions `todo`, one after
\* the other, each followed by its own children
RECURSIVE prepare_child(_, _, _)
prepare_child(L, parent, todo) ==
    IF todo = <<>> THEN L
    ELSE LET child == L.rects[parent].children[Head(todo)].rect
             cons == edge_cons(L, parent, Head(todo))
             L1 == solver_add(solver_remove(L, L.rects[child].edge_cons), cons)
             L2 == [L1 EXCEPT !.rects[child].edge_cons = cons, !.cons = @ + 3]
         IN  prepare_child(prepare_child(L2, child, [k \in 1..Len(L.rects[child].children) |-> k]),
                           parent, Tail(todo))

\* set_defined_constraint; the positions of children count from 1
set_defined_constraint(L, defined, parent, i, axis) ==
    LET P == L.rects[parent]
        c == con(L.cons, "defined", L.rects[P.children[i].rect].vp, P.vp, axis, defined)
    IN  IF \/ defined.kind = "Ratio" /\ ~(defined.n < defined.m)
           \/ defined.kind = "Percent" /\ ~(defined.n <= 100)
        THEN [L EXCEPT !.err = IF @ = "None" THEN "assert" ELSE @]
        ELSE [solver_add(L, {c}) EXCEPT !.rects[parent].children[i].defined = c, !.cons = @ + 1]

\* Constraints::is_resizable
is_resizable(child) == child.defined.kind = "None" \/ child.defined.c.kind \in {"Min", "Max"}

\* set_ratio_constraints for the resizable child at position i
set_ratio_constraints(L, parent, i) ==
    LET P == L.rects[parent]
        new == L.rects[P.children[i].rect]
        res == {k \in 1..Len(P.children) : is_resizable(P.children[k])}
        before == {k \in res : k < i}
        after == {k \in res : k > i}
        prev == CHOOSE k \in before : \A j \in before : j <= k
        next == CHOOSE k \in after : \A j \in after : k <= j
        c1 == con(L.cons, "ratio", L.rects[P.children[prev].rect].vp, new.vp, P.axis, NoConstraint)
        L1 == IF before = {} THEN L
              ELSE [solver_add(L, {c1}) EXCEPT !.rects[parent].children[prev].ratio = c1,
                                               !.cons = @ + 1]
        c2 == con(L1.cons, "ratio", new.vp, L.rects[P.children[next].rect].vp, P.axis, NoConstraint)
    IN  IF after = {} THEN [L1 EXCEPT !.rects[parent].children[i].ratio = NoCon]
        ELSE [solver_add(L1, {c2}) EXCEPT !.rects[parent].children[i].ratio = c2, !.cons = @ + 1]

\* Rect::new and Rect::new_parent_of
Rect_new(vp) == [vp |-> vp, edge_cons |-> {}, axis |-> "None", clustered |-> FALSE,
                 children |-> <<>>]

\* set_main_constraints
set_main_constraints(L, index) ==
    LET c == {con(L.cons, "main", L.rects[index].vp, L.rects[index].vp, "None", NoConstraint)}
    IN  [solver_add(L, c) EXCEPT !.rects[index].edge_cons = c, !.cons = @ + 1]

\* Layout::new: the main Rect gets its constraints, and then once more
Layout_new ==
    LET L0 == [rects |-> (0 :> Rect_new(0)), main |-> 0, solver |-> {}, err |-> "None",
               cons |-> 0, count |-> 1, ret |-> <<0, None>>]
        L1 == set_main_constraints(L0, 0)
    IN  set_main_constraints(solver_remove(L1, L1.rects[0].edge_cons), 0)

\* fetch_parent: the parent of the Rect `index` and its position there
fetch_parent(L, index) ==
    UNION {{<<p, i>> : i \in {k \in 1..Len(L.rects[p].children) :
                                   L.rects[p].children[k].rect = index}} : p \in DOMAIN L.rects}

\* Axis::from(PushSpecs) and PushSpecs::comes_earlier
Axis_from(specs) == IF specs.side \in {"left", "right"} THEN "Horizontal" ELSE "Vertical"
comes_earlier(specs) == specs.side \in {"left", "above"}

\* bisect, the branch that makes a new parent for the Rect `index`: the parent
\* takes a new index and the Rect's variables and edge constraints, the Rect
\* keeps its index and gets new variables; the defined constraint the
\* grandparent held for this place moves on to the Rect
new_parent(L, index, axis, cluster_new) ==
    LET np == L.count
        R == L.rects[index]
        fp == fetch_parent(L, index)
        g == CHOOSE x \in fp : TRUE
        old == L.rects[g[1]].children[g[2]].defined
        parent == [vp |-> R.vp, edge_cons |-> R.edge_cons, axis |-> axis,
                   clustered |-> cluster_new,
                   children |-> <<[rect |-> index, defined |-> NoCon, ratio |-> NoCon]>>]
        La == [L EXCEPT !.rects = (np :> parent) @@ [@ EXCEPT ![index].vp = np,
                                                               ![index].edge_cons = {}],
                        !.count = @ + 1,
                        !.main = IF @ = index THEN np ELSE @]
        Lb == IF fp = {} THEN La
              ELSE [La EXCEPT !.rects[g[1]].children[g[2]] =
                                  [rect |-> np, defined |-> NoCon, ratio |-> NoCon]]
        Lc == IF fp = {} \/ old.kind = "None" THEN Lb
              ELSE set_defined_constraint(solver_remove(Lb, {old}), old.c, np, 1, L.rects[g[1]].axis)
    IN  IF cluster_new THEN Lc
        ELSE IF L.main = index
             THEN set_main_constraints(solver_remove(Lc, Lc.rects[np].edge_cons), np)
             ELSE prepare_child(Lc, g[1], <<g[2]>>)

\* bisect, its first part: the parent that will hold the new Rect, the place
\* (from 1) where it goes, and the index of the parent if it is a new one
bisect_parent(L, index, specs, cluster_new) ==
    LET axis == Axis_from(specs)
        fp == fetch_parent(L, index)
        g == CHOOSE x \in fp : TRUE
        parent_clustered == IF fp # {} THEN L.rects[g[1]].clustered ELSE cluster_new
        child_clustered == L.rects[index].axis # "None" /\ L.rects[index].clustered
    IN  IF parent_clustered = cluster_new /\ fp # {} /\ L.rects[g[1]].axis = axis
        THEN [L |-> L, parent |-> g[1], pos |-> IF comes_earlier(specs) THEN g[2] ELSE g[2] + 1,
              new_parent |-> None]
        ELSE IF child_clustered = cluster_new /\ L.rects[index].axis = axis
        THEN [L |-> L, parent |-> index,
              pos |-> IF comes_earlier(specs) THEN 1 ELSE Len(L.rects[index].children) + 1,
              new_parent |-> None]
        ELSE [L |-> new_parent(L, index, axis, cluster_new), parent |-> L.count,
              pos |-> IF comes_earlier(specs) THEN 1 ELSE 2, new_parent |-> L.count]

\* the children prepare_child is run for after an insertion at `pos`; none
around_none(L, parent, pos) == <<>>
around(L, parent, pos) ==
    (IF pos > 1 THEN <<pos - 1>> ELSE <<>>) \o <<pos>>
    \o (IF pos + 1 <= Len(L.rects[parent].children) THEN <<pos + 1>> ELSE <<>>)

\* bisect, the new Rect put at `pos` among the children of `parent`, with its
\* defined constraint, and the first prepare_child round (Frame::Empty)
bisect_insert(L, parent, pos, specs) ==
    LET new == L.count
        L1 == [L EXCEPT !.rects = (new :> Rect_new(new)) @@
                            [@ EXCEPT ![parent].children =
                                InsertAt(@, pos, [rect |-> new, defined |-> NoCon, ratio |-> NoCon])],
                        !.count = @ + 1]
        L2 == IF specs.constraint.kind = "None" THEN L1
              ELSE set_defined_constraint(L1, specs.constraint, parent, pos, L.rects[parent].axis)
    IN  prepare_child(L2, parent, around(L2, parent, pos))

\* the temporary constraint is taken out of the solver again / is left in it
keep_temp(L, temp) == L
remove_temp(L, temp) == solver_remove(L, {temp})

\* bisect, its last part for a resizable new Rect: the temporary constraint on
\* its length, set_ratio_constraints, the temporary constraint removed
bisect_ratio(L, parent, pos) ==
    LET temp == con(L.cons, "temp", L.rects[L.rects[parent].children[pos].rect].vp, 0,
                    L.rects[parent].axis, NoConstraint)
        L1 == [solver_add(L, {temp}) EXCEPT !.cons = @ + 1]
    IN  remove_temp(set_ratio_constraints(L1, parent, pos), temp)

\* Layout::bisect
bisect(L, index, specs, cluster_new) ==
    LET B == bisect_parent(L, index, specs, cluster_new)
        L1 == bisect_insert(B.L, B.parent, B.pos, specs)
        L2 == IF specs.constraint.kind \in {"None", "Min", "Max"}
              THEN bisect_ratio(L1, B.parent, B.pos) ELSE L1
        L3 == prepare_child(L2, B.parent, around(L2, B.parent, B.pos))
    IN  [L3 EXCEPT !.ret = <<L1.count - 1, B.new_parent>>]

\* Rect::change_child_constraint for the child at position i of `parent`
change_child_constraint(L, parent, i, defined) ==
    LET old == L.rects[parent].children[i].defined
        L1 == IF old.kind = "None" THEN L
              ELSE [solver_remove(L, {old}) EXCEPT !.rects[parent].children[i].defined = NoCon]
    IN  IF old.kind # "None" /\ old.c = defined THEN [L EXCEPT !.ret = <<0, None>>]
        ELSE [set_defined_constraint(L1, defined, parent, i, L.rects[parent].axis)
                 EXCEPT !.ret = <<1, None>>]

\* Constraint values and PushSpecs the model draws from
Constraints == {NoConstraint, [kind |-> "Length", n |-> 1, m |-> 0],
                [kind |-> "Min", n |-> 1, m |-> 0], [kind |-> "Ratio", n |-> 1, m |-> 1]}
PushSpecs == [side : {"left", "right", "above", "below"}, constraint : Constraints]

Layout_bisect(index, specs, cluster_new) ==
    /\ status = "run"
    /\ layout.count < MaxRects
    /\ LET L == bisect(layout, index, specs, cluster_new)
       IN  IF L.err = "None"
           THEN layout' = L /\ UNCHANGED status
           ELSE layout' = [layout EXCEPT !.err = L.err] /\ status' = "panic"
    /\ last' = [op |-> "bisect", index |-> index, specs |-> specs, cluster_new |-> cluster_new,
                was |-> layout]
    /\ UNCHANGED <<text, tags, cursors, main_index, clearing_needed, moments, cur, bases, tops,
                   nops, builder, print_info, cfg, words, commands, Others>>

Rect_change_child_constraint(parent, i, defined) ==
    /\ status = "run" /\ nops < MaxChanges
    /\ i \in 1..Len(layout.rects[parent].children)
    /\ defined.kind # "None"
    /\ LET L == change_child_constraint(layout, parent, i, defined)
       IN  IF L.err = "None"
           THEN layout' = L /\ UNCHANGED status
           ELSE layout' = [layout EXCEPT !.err = L.err] /\ status' = "panic"
    /\ last' = [op |-> "change_child_constraint", index |-> parent, specs |-> defined,
                cluster_new |-> FALSE, was |-> layout]
    /\ nops' = nops + 1
    /\ UNCHANGED <<text, tags, cursors, main_index, clearing_needed, moments, cur, bases, tops,
                   builder, print_info, cfg, words, commands, Others>>

InitLayout ==
    /\ text = <<>> /\ tags = <<>> /\ cursors = <<>> /\ main_index = 0
    /\ clearing_needed = FALSE /\ moments = <<>> /\ cur = 0 /\ bases = {} /\ tops = {}
    /\ status = "run" /\ last = [op |-> "new"] /\ nops = 0
    /\ builder = Builder_default /\ print_info = PrintInfo_default /\ cfg = PrintCfg_default
    /\ words = Words_default /\ commands = [list |-> <<>>] /\ OthersInit
    /\ layout = Layout_new

NextLayout ==
    \/ \E index \in DOMAIN layout.rects, specs \in PushSpecs, cluster_new \in BOOLEAN :
           Layout_bisect(index, specs, cluster_new)
    \/ \E parent \in DOMAIN layout.rects, i \in 1..MaxRects, defined \in Constraints :
           Rect_change_child_constraint(parent, i, defined)

SpecLayout == InitLayout /\ [][NextLayout]_vars

\* the solver holds a constraint of this kind between the variables a and b
holds(L, kind, a, b, axis) ==
    \E c \in L.solver : c.kind = kind /\ c.a = a /\ c.b = b /\ c.axis = axis

\* the edge constraint c is the one a child of some parent is due
due(L, c) ==
    \E p \in DOMAIN L.rects : \E i \in 1..Len(L.rects[p].children) :
        LET P == L.rects[p]
            R == L.rects[P.children[i].rect]
        IN  /\ c.a = R.vp /\ c.axis = P.axis
            /\ \/ c.kind \in {"edges", "last"} /\ c.b = P.vp /\ (c.kind = "last" => i = Len(P.children))
               \/ c.kind = "first" /\ c.b = P.vp /\ i = 1
               \/ c.kind = "next" /\ i < Len(P.children) /\ c.b = L.rects[P.children[i + 1].rect].vp

\* C23: after any bisects and constraint changes the REQUIRED constraints in the
\* solver are, for every parent P with axis A: the first child's start equals
\* P's start, every child's end equals the next child's start, the last
\* child's end equals P's end, every child's edges across A equal P's (all
\* frame lengths are 0 with Frame::Empty); and the solver holds no other
\* REQUIRED constraint on an edge, so its solutions are these equalities'.
C23_EdgeEqualities ==
    status = "run" =>
        /\ \A p \in DOMAIN layout.rects : \A i \in 1..Len(layout.rects[p].children) :
               LET P == layout.rects[p]
                   R == layout.rects[P.children[i].rect]
               IN  /\ holds(layout, "edges", R.vp, P.vp, P.axis)
                   /\ i = 1 => holds(layout, "first", R.vp, P.vp, P.axis)
                   /\ i < Len(P.children) =>
                          holds(layout, "next", R.vp, layout.rects[P.children[i + 1].rect].vp, P.axis)
                   /\ i = Len(P.children) => holds(layout, "last", R.vp, P.vp, P.axis)
        /\ \A c \in layout.solver :
               /\ c.kind \in {"edges", "first", "next", "last"} => due(layout, c)
               /\ c.kind = "main" => c.a = layout.rects[layout.main].vp
        /\ holds(layout, "main", layout.rects[layout.main].vp, layout.rects[layout.main].vp, "None")

\* a parent with three children after a constraint change
C23_Witness ==
    /\ status = "run" /\ last.op = "change_child_constraint"
    /\ \E p \in DOMAIN layout.rects : Len(layout.rects[p].children) = 3

\* C25: after any bisect the solver holds no temporary constraint.
C25_NoTemp == \A c \in layout.solver : c.kind # "temp"

\* a bisect with a resizable new Rect has returned
C25_Witness ==
    /\ status = "run" /\ last.op = "bisect" /\ last.specs.constraint.kind \in {"None", "Min"}
    /\ \E p \in DOMAIN layout.rects : \E i \in 1..Len(layout.rects[p].children) :
           layout.rects[p].children[i].ratio.kind = "ratio"

Layout_max == [Horizontal |-> 80, Vertical |-> 24]

RECURSIVE Rect_start(_, _, _, _)
Rect_start(L, cut, v, axis) ==
    LET copy == {c \in L.solver : /\ c.a = v
                                  /\ \/ c.kind = "edges" /\ c.axis # axis
                                     \/ c.kind = "first" /\ c.axis = axis}
        next == {c \in L.solver : c.kind = "next" /\ c.b = v /\ c.axis = axis}
    IN  IF \E c \in L.solver : c.kind = "main" /\ c.a = v THEN 0
        ELSE IF copy # {} THEN Rect_start(L, cut, (CHOOSE c \in copy : TRUE).b, axis)
        ELSE IF next # {} THEN cut[(CHOOSE c \in next : TRUE).id]
        ELSE None

RECURSIVE Rect_end(_, _, _, _)
Rect_end(L, cut, v, axis) ==
    LET copy == {c \in L.solver : /\ c.a = v
                                  /\ \/ c.kind = "edges" /\ c.axis # axis
                                     \/ c.kind = "last" /\ c.axis = axis}
        next == {c \in L.solver : c.kind = "next" /\ c.a = v /\ c.axis = axis}
    IN  IF \E c \in L.solver : c.kind = "main" /\ c.a = v THEN Layout_max[axis]
        ELSE IF copy # {} THEN Rect_end(L, cut, (CHOOSE c \in copy : TRUE).b, axis)
        ELSE IF next # {} THEN cut[(CHOOSE c \in next : TRUE).id]
        ELSE None

\* Rect::len_value
len_value(L, cut, v, axis) == Rect_end(L, cut, v, axis) - Rect_start(L, cut, v, axis)

\* the solutions of the solver: the REQUIRED constraints hold, and so does every
\* STRONG one (a Length) when they all can
solutions(L) ==
    LET ids == {c.id : c \in {d \in L.solver : d.kind = "next"}}
        req == {cut \in [ids -> 0..Layout_max.Horizontal] :
                   \A c \in L.solver : c.kind = "edges" =>
                       \A axis \in {"Horizontal", "Vertical"} :
                           /\ 0 <= Rect_start(L, cut, c.a, axis)
                           /\ Rect_start(L, cut, c.a, axis) <= Rect_end(L, cut, c.a, axis)}
        strong == {cut \in req : \A c \in L.solver :
                      c.kind = "defined" /\ c.c.kind = "Length" =>
                          len_value(L, cut, c.a, c.axis) = c.c.n}
    IN  IF strong # {} THEN strong ELSE req

\* what a bisect that made a new parent leaves: the parent, new, stands where
\* the Rect `index` stood, its axis is the requested one, its children are the
\* Rect, which kept its index and its own children, and the new Rect
new_parent_post(was, now, index, specs) ==
    LET np == now.ret[2]
    IN  /\ np # None /\ np \notin DOMAIN was.rects /\ now.ret[1] \notin DOMAIN was.rects
        /\ now.rects[np].axis = Axis_from(specs)
        /\ [k \in 1..Len(now.rects[np].children) |-> now.rects[np].children[k].rect]
               = IF comes_earlier(specs) THEN <<now.ret[1], index>> ELSE <<index, now.ret[1]>>
        /\ now.rects[index].children = was.rects[index].children
        /\ now.rects[now.ret[1]].children = <<>>
        /\ fetch_parent(now, np) = fetch_parent(was, index)
        /\ (was.main = index) = (now.main = np)

\* the Rect `index` has a parent whose axis is the requested one
parent_on_axis(L, index, axis) == \E g \in fetch_parent(L, index) : L.rects[g[1]].axis = axis

\* scenario S5: the root of the 80x24 screen bisected below with a length of 1
S5Bisect ==
    /\ last.op = "bisect" /\ last.was = Layout_new /\ last.cluster_new = FALSE
    /\ last.specs = [side |-> "below", constraint |-> [kind |-> "Length", n |-> 1, m |-> 0]]

S5Post ==
    solutions(layout) # {} /\ \A cut \in solutions(layout) :
        LET N == layout.rects[layout.ret[1]].vp
            R == layout.rects[last.index].vp
        IN  /\ len_value(layout, cut, N, "Vertical") = 1
            /\ len_value(layout, cut, N, "Horizontal") = Layout_max.Horizontal
            /\ Rect_start(layout, cut, N, "Vertical") = Rect_end(layout, cut, R, "Vertical")
            /\ Rect_start(layout, cut, R, "Vertical") = 0

\* C24 as stated: bisecting a Rect that has no parent on the requested axis
\* puts a new parent on that axis in its place, holding the displaced Rect
\* (with its index) and the new Rect; in scenario S5 the new Rect is 1 high and
\* 80 wide and starts where the displaced Rect ends.
C24_NewParentStated ==
    (status = "run" /\ last.op = "bisect") =>
        /\ ~parent_on_axis(last.was, last.index, Axis_from(last.specs)) =>
               new_parent_post(last.was, layout, last.index, last.specs)
        /\ S5Bisect => S5Post

\* C24, amended: the same for a Rect that has no parent on the requested axis
\* and is not itself a parent on that axis whose clustered flag is cluster_new.
C24_NewParent ==
    (status = "run" /\ last.op = "bisect") =>
        /\ (/\ ~parent_on_axis(last.was, last.index, Axis_from(last.specs))
            /\ ~(/\ last.was.rects[last.index].axis = Axis_from(last.specs)
                 /\ last.was.rects[last.index].clustered = last.cluster_new)) =>
               new_parent_post(last.was, layout, last.index, last.specs)
        /\ S5Bisect => S5Post

\* scenario S5 has run and made a new parent with two children
C24_Witness == status = "run" /\ S5Bisect /\ layout.ret[2] # None /\ Len(layout.rects[layout.ret[2]].children) = 2

\* ------------------------------------------------------------- Commands
\* InnerCommands of parsec-core (commands.rs); try_add and try_alias of
\* duat-core are the same checks.  A String is the sequence of its chars, a
\* Command is [callers, f], `commands.aliases` is the HashMap as the set of its
\* entries [alias, command].  `commands.defined` remembers what alias was
\* called with, for the claims.  A result is [ok, err, cmd, units, blob, args]:
\* `cmd` is the place in the list of the Command whose function ran, with the
\* flags and the arguments it was given.  `commands.focus` is the widget that
\* takes the keys, `commands.text` the chars of the CommandLine's Text, and
\* `commands.threads` the commands of the threads on_unfocus has spawned that
\* have not run yet.

\* how many calls on the commands, and how many keys
MaxCalls == 3
MaxKeys == 5

quit == <<"q", "u", "i", "t">>
alias == <<"a", "l", "i", "a", "s">>

Ok_(cmd, flags, args) ==
    [ok |-> TRUE, err |-> "None", cmd |-> cmd, units |-> flags.units, blob |-> flags.blob,
     args |-> args]
Err_(err) == [ok |-> FALSE, err |-> err, cmd |-> 0, units |-> <<>>, blob |-> <<>>, args |-> <<>>]

\* str::split_whitespace
RECURSIVE split_whitespace(_)
split_whitespace(str) ==
    IF str = <<>> THEN <<>>
    ELSE IF Head(str) = " " THEN split_whitespace(Tail(str))
    ELSE LET n == CHOOSE k \in 2..(Len(str) + 1) :
                      /\ k = Len(str) + 1 \/ str[k] = " "
                      /\ \A j \in 2..(k - 1) : str[j] # " "
         IN  <<SubSeq(str, 1, n - 1)>> \o split_whitespace(SubSeq(str, n, Len(str)))

\* Iterator<Item = &str>::collect::<String>(): the items one after the other
RECURSIVE collect(_)
collect(items) == IF items = <<>> THEN <<>> ELSE Head(items) \o collect(Tail(items))

\* the list's callers, Command after Command
RECURSIVE callers_of(_)
callers_of(list) == IF list = <<>> THEN <<>> ELSE Head(list).callers \o callers_of(Tail(list))

\* a String pushed for each of `items` that `into` does not hold yet
RECURSIVE push_new(_, _)
push_new(into, items) ==
    IF items = <<>> THEN into
    ELSE push_new(IF \E k \in 1..Len(into) : into[k] = Head(items) THEN into
                  ELSE Append(into, Head(items)), Tail(items))

\* split_flags: the leading "--unit" and "-blob" words, and the arguments left
RECURSIVE split_flags(_, _)
split_flags(flags, args) ==
    IF args = <<>> THEN [flags |-> flags, args |-> args]
    ELSE LET arg == Head(args)
         IN  IF Len(arg) >= 2 /\ arg[1] = "-" /\ arg[2] = "-"
             THEN IF Len(arg) > 2
                  THEN split_flags([flags EXCEPT !.units = push_new(@, <<SubSeq(arg, 3, Len(arg))>>)],
                                   Tail(args))
                  ELSE [flags |-> flags, args |-> args]
             ELSE IF arg[1] = "-"
             THEN split_flags([flags EXCEPT
                                  !.blob = push_new(@, [k \in 1..(Len(arg) - 1) |-> arg[k + 1]])],
                              Tail(args))
             ELSE [flags |-> flags, args |-> args]

\* InnerCommands::try_add: new_callers is one iterator for the whole loop, and
\* any() takes from it until it finds the caller, or to its end
RECURSIVE any_caller(_, _)
any_caller(callers, new_callers) ==
    IF callers = <<>> THEN "None"
    ELSE IF \E k \in 1..Len(new_callers) : new_callers[k] = Head(callers) THEN "AlreadyExists"
    ELSE any_caller(Tail(callers), <<>>)

try_add(C, command) ==
    IF any_caller(callers_of(C.list), command.callers) = "AlreadyExists"
    THEN [C EXCEPT !.result = Err_("AlreadyExists")]
    ELSE [C EXCEPT !.list = Append(@, command), !.result = Ok_(0, [units |-> <<>>, blob |-> <<>>], <<>>)]

\* InnerCommands::try_alias
try_alias(C, alias_, command) ==
    IF Len(split_whitespace(alias_)) # 1 THEN [C EXCEPT !.result = Err_("NotSingleWord")]
    ELSE IF command = <<>> THEN [C EXCEPT !.result = Err_("Empty")]
    ELSE IF \E k \in 1..Len(callers_of(C.list)) : callers_of(C.list)[k] = Head(command)
    THEN [C EXCEPT !.aliases = {e \in @ : e.alias # alias_}
                                   \cup {[alias |-> alias_,
                                          command |-> Head(command) \o collect(Tail(command))]},
                   !.defined = {e \in @ : e.alias # alias_}
                                   \cup {[alias |-> alias_, command |-> command]},
                   !.result = Ok_(0, [units |-> <<>>, blob |-> <<>>], <<>>)]
    ELSE [C EXCEPT !.result = Err_("CallerNotFound")]

\* Command::try_exec when the caller is one of the Command's: its function
\* RwLock::write is granted when no guard of the lock is alive
write_granted(state) == state = "free"

exec(C, cmd, flags, args) ==
    IF C.list[cmd].f = "alias"
    THEN IF flags.units # <<>> \/ flags.blob # <<>> THEN [C EXCEPT !.result = Err_("Failed")]
         ELSE IF args = <<>> THEN [C EXCEPT !.result = Err_("Failed")]
         ELSE IF ~write_granted(C.inner) THEN [C EXCEPT !.result = Err_("Blocked")]
         ELSE LET A == try_alias(C, Head(args), Tail(args))
              IN  IF A.result.ok THEN A ELSE [C EXCEPT !.result = Err_("Failed")]
    ELSE [C EXCEPT !.result = Ok_(cmd, flags, args)]

\* InnerCommands::run
run(C, command) ==
    LET first == split_whitespace(command)
        aliased == {e \in C.aliases : first # <<>> /\ e.alias = Head(first)}
        words_ == IF aliased = {} THEN first
                  ELSE split_whitespace((CHOOSE e \in aliased : TRUE).command)
        split == split_flags([units |-> <<>>, blob |-> <<>>], Tail(words_))
        cmds == {k \in 1..Len(C.list) :
                    \E j \in 1..Len(C.list[k].callers) : C.list[k].callers[j] = Head(words_)}
    IN  IF first = <<>> THEN [C EXCEPT !.result = Err_("Empty")]
        ELSE IF cmds = {} THEN [C EXCEPT !.result = Err_("CallerNotFound")]
        ELSE exec(C, CHOOSE k \in cmds : \A j \in cmds : k <= j, split.flags, split.args)

\* Commands::run: InnerCommands::run under the read guard of inner; the
\* guard is dropped when run returns, a command waiting for the lock (the
\* Blocked result) never returns
Commands_run_inner(C, command) ==
    LET R == run([C EXCEPT !.inner = "read"], command)
    IN  [R EXCEPT !.inner = IF R.result.err = "Blocked" THEN "read" ELSE "free"]

\* Commands::new: "quit" and "alias"
Commands_new ==
    [list |-> <<[callers |-> <<quit, <<"q">>>>, f |-> "quit"], [callers |-> <<alias>>, f |-> "alias"]>>,
     aliases |-> {}, defined |-> {}, result |-> Err_("None"), inner |-> "free",
     focus |-> "File", text |-> <<>>, threads |-> <<>>]

\* one call on the registry; a thread that asks for a lock it holds itself
\* waits for ever or panics (std::sync::RwLock leaves the choice open)
Commands_step(op, arg, C) ==
    /\ status = "run" /\ nops < MaxCalls
    /\ commands' = C
    /\ status' \in IF C.result.err = "Blocked" THEN {"blocked", "panic"} ELSE {status}
    /\ last' = [op |-> op, arg |-> arg, was |-> commands]
    /\ nops' = nops + 1
    /\ UNCHANGED <<text, tags, cursors, main_index, clearing_needed, moments, cur, bases, tops,
                   builder, print_info, cfg, words, layout, Others>>

\* Commands::add
Commands_add(callers) ==
    Commands_step("add", callers, try_add(commands, [callers |-> callers, f |-> "user"]))

\* commands::alias
Commands_alias(alias_, command) ==
    Commands_step("alias", <<alias_, command>>, try_alias(commands, alias_, command))

\* Commands::run
Commands_run(command) == Commands_step("run", command, Commands_run_inner(commands, command))

AddCallers == {<<<<"c">>>>, <<<<"c">>, <<"q">>>>, <<<<"d">>, <<"c">>>>, <<quit>>, <<<<"q">>, quit>>}
AliasWords == {<<"x">>, <<"q">>, <<"x", " ", "y">>}
AliasCommands == {<<>>, <<<<"c">>>>, <<<<"c">>, <<"-", "-", "f">>, <<"-", "a", "b">>, <<"a">>>>,
                  <<<<"z">>>>}
RunCommands == {<<>>, <<"x">>, <<"q">>, <<"c">>,
                <<"c", " ", "-", "-", "f", " ", "-", "a", "b", " ", "a">>,
                alias \o <<" ", "x", " ", "c">>}

InitCommands ==
    /\ text = <<>> /\ tags = <<>> /\ cursors = <<>> /\ main_index = 0
    /\ clearing_needed = FALSE /\ moments = <<>> /\ cur = 0 /\ bases = {} /\ tops = {}
    /\ status = "run" /\ last = [op |-> "new"] /\ nops = 0
    /\ builder = Builder_default /\ print_info = PrintInfo_default /\ cfg = PrintCfg_default
    /\ words = Words_default /\ layout = [solver |-> {}] /\ OthersInit
    /\ commands = Commands_new

NextCommands ==
    \/ \E callers \in AddCallers : Commands_add(callers)
    \/ \E alias_ \in AliasWords, command \in AliasCommands : Commands_alias(alias_, command)
    \/ \E command \in RunCommands : Commands_run(command)

SpecCommands == InitCommands /\ [][NextCommands]_vars

\* C28: an add whose callers hold a caller of a registered command returns an
\* error, and no caller belongs to two commands.
C28_NoSharedCaller ==
    /\ (last.op = "add" /\ \E k \in 1..Len(last.arg) : \E j \in 1..Len(callers_of(last.was.list)) :
                               callers_of(last.was.list)[j] = last.arg[k])
           => ~commands.result.ok
    /\ \A i, j \in 1..Len(commands.list) :
           i # j => \A a \in 1..Len(commands.list[i].callers) :
                        \A b \in 1..Len(commands.list[j].callers) :
                            commands.list[i].callers[a] # commands.list[j].callers[b]

\* C29: alias returns an error when the alias word is a caller of a registered
\* command.
C29_AliasOfCallerErr ==
    (last.op = "alias" /\ \E j \in 1..Len(callers_of(last.was.list)) :
                              callers_of(last.was.list)[j] = last.arg[1])
        => ~commands.result.ok

\* C30: running an alias runs the function of the command whose caller the
\* alias was defined with, with the flags and the arguments of the definition.
C30_AliasRunsDefinition ==
    last.op = "run" =>
        \A e \in last.was.defined :
            (split_whitespace(last.arg) = <<e.alias>>) =>
                LET split == split_flags([units |-> <<>>, blob |-> <<>>], Tail(e.command))
                IN  /\ commands.result.ok
                    /\ commands.result.cmd \in 1..Len(last.was.list)
                    /\ \E j \in 1..Len(last.was.list[commands.result.cmd].callers) :
                           last.was.list[commands.result.cmd].callers[j] = Head(e.command)
                    /\ commands.result.units = split.flags.units
                    /\ commands.result.blob = split.flags.blob
                    /\ commands.result.args = split.args

\* ------------------------------------------------------------- key events
\* The UI thread takes one key event after the other and gives it to the input
\* method of the focused widget.

\* CommandLine::on_unfocus: the Text is taken, and a thread is spawned that
\* will run it as a command
on_unfocus(C) == [C EXCEPT !.text = <<>>, !.threads = Append(@, C.text), !.focus = "File"]

\* Commander::send_key, for the keys of the model: a Char is inserted at the
\* caret, Esc empties the Text and returns to the file, Enter returns to the
\* file
Commander_send_key(C, key) ==
    IF key = "Enter" THEN on_unfocus(C)
    ELSE IF key = "Esc" THEN on_unfocus([C EXCEPT !.text = <<>>])
    ELSE [C EXCEPT !.text = Append(@, key)]

\* a key event is handled: by the file's input method, where ':' switches to
\* the CommandLine (on_focus empties its Text), or by the Commander
send_key(key) ==
    /\ status = "run" /\ nops < MaxKeys
    /\ commands' = IF commands.focus = "CommandLine" THEN Commander_send_key(commands, key)
                   ELSE IF key = ":" THEN [commands EXCEPT !.focus = "CommandLine", !.text = <<>>]
                   ELSE commands
    /\ last' = [op |-> "send_key", arg |-> key, was |-> commands]
    /\ nops' = nops + 1
    /\ UNCHANGED <<text, tags, cursors, main_index, clearing_needed, moments, cur, bases, tops,
                   status, builder, print_info, cfg, words, layout, Others>>

\* one of the spawned threads runs its command
thread_run(i) ==
    /\ status = "run"
    /\ i \in 1..Len(commands.threads)
    /\ commands' = Commands_run_inner([commands EXCEPT !.threads = RemoveAt(@, i)],
                                       commands.threads[i])
    /\ last' = [op |-> "thread", arg |-> commands.threads[i], was |-> commands]
    /\ UNCHANGED <<text, tags, cursors, main_index, clearing_needed, moments, cur, bases, tops,
                   status, nops, builder, print_info, cfg, words, layout, Others>>

NextKeys ==
    \/ \E key \in {":", "q", " ", "Enter", "Esc"} : send_key(key)
    \/ \E i \in 1..MaxKeys : thread_run(i)

SpecKeys == InitCommands /\ [][NextKeys]_vars

\* C27: when a key event is handled, the command every earlier key event
\* started has run: no spawned command is still to run.
C27_CommandBeforeNextKey == last.op = "send_key" => last.was.threads = <<>>

\* ------------------------------------------------------------------------
\* RwData and RoData (parsec-core config.rs): the data behind a RwLock, a
\* shared counter of the writes, and each handle's own last_read.  One
\* thread writes through a RwData, another polls through a RoData made
\* from it; each step is one atomic operation or one lock operation.
\* ------------------------------------------------------------------------
MaxWrites == 2

\* has_changed's comparison, with the mutant that also reports equal counters
changed_or_equal(updated_state, last_read) == updated_state >= last_read
changed(updated_state, last_read) == updated_state > last_read

\* RwData::new, and RoData::from(&RwData) for the polling handle, whose
\* last_read starts one below the counter
RwData_new ==
    [data |-> 0, updated_state |-> 1, state |-> "free", last_read |-> 1 - 1,
     wpc |-> "idle", rpc |-> "idle", u |-> 0, res |-> FALSE, seen |-> None,
     writes |-> 0, since |-> 0, prior |-> 0, called |-> FALSE]

RwOnly ==
    UNCHANGED <<text, tags, cursors, main_index, clearing_needed, moments, cur, bases, tops,
                status, nops, builder, print_info, cfg, words, layout, commands,
                reload, mode>>

\* RwData::write: the counter goes up first ...
write_fetch_add ==
    /\ rw.wpc = "idle" /\ rw.writes < MaxWrites
    /\ rw' = [rw EXCEPT !.updated_state = @ + 1, !.wpc = "lock", !.writes = @ + 1,
                        !.since = @ + 1]
    /\ UNCHANGED last /\ RwOnly

\* ... then the write lock is taken, once nobody holds the lock
write_lock ==
    /\ rw.wpc = "lock" /\ rw.state = "free"
    /\ rw' = [rw EXCEPT !.state = "write", !.wpc = "guard"]
    /\ UNCHANGED last /\ RwOnly

\* the caller modifies the data through the guard and drops it
write_guard_drop ==
    /\ rw.wpc = "guard"
    /\ rw' = [rw EXCEPT !.data = @ + 1, !.state = "free", !.wpc = "idle"]
    /\ UNCHANGED last /\ RwOnly

\* has_changed: load of updated_state
has_changed_load ==
    /\ rw.rpc = "idle"
    /\ rw' = [rw EXCEPT !.u = rw.updated_state, !.rpc = "swap", !.prior = rw.since,
                        !.since = 0]
    /\ UNCHANGED last /\ RwOnly

\* has_changed: swap of last_read and the comparison; the polling thread
\* calls read() next when the answer is true
has_changed_swap ==
    /\ rw.rpc = "swap"
    /\ rw' = [rw EXCEPT !.res = changed(rw.u, rw.last_read), !.last_read = rw.u,
                        !.rpc = IF changed(rw.u, rw.last_read) THEN "read" ELSE "idle",
                        !.called = TRUE]
    /\ last' = [op |-> "has_changed", res |-> changed(rw.u, rw.last_read),
                prior |-> rw.prior, called |-> rw.called]
    /\ RwOnly

\* read, called after a poll that returned true or on its own: load of
\* updated_state
read_load ==
    /\ rw.rpc \in {"idle", "read"}
    /\ rw' = [rw EXCEPT !.u = rw.updated_state, !.rpc = "store", !.since = 0]
    /\ UNCHANGED last /\ RwOnly

\* read: store to last_read
read_store ==
    /\ rw.rpc = "store"
    /\ rw' = [rw EXCEPT !.last_read = rw.u, !.rpc = "rlock"]
    /\ UNCHANGED last /\ RwOnly

\* read: the read lock is taken, unless a writer holds the lock
read_lock ==
    /\ rw.rpc = "rlock" /\ rw.state # "write"
    /\ rw' = [rw EXCEPT !.state = "read", !.rpc = "guard"]
    /\ UNCHANGED last /\ RwOnly

\* the caller looks at the data through the guard and drops it
read_guard_drop ==
    /\ rw.rpc = "guard"
    /\ rw' = [rw EXCEPT !.seen = rw.data, !.state = "free", !.rpc = "idle", !.called = TRUE]
    /\ last' = [op |-> "read", res |-> FALSE, prior |-> 0, called |-> rw.called]
    /\ RwOnly

InitRw ==
    /\ text = <<>> /\ tags = <<>> /\ cursors = <<>> /\ main_index = 0
    /\ clearing_needed = FALSE /\ moments = <<>> /\ cur = 0 /\ bases = {} /\ tops = {}
    /\ status = "run" /\ last = [op |-> "new"] /\ nops = 0
    /\ builder = Builder_default /\ print_info = PrintInfo_default /\ cfg = PrintCfg_default
    /\ words = Words_default /\ layout = [solver |-> {}] /\ commands = [list |-> <<>>]
    /\ reload = [BREAK |-> 0] /\ mode = "Normal"
    /\ rw = RwData_new

NextRw ==
    \/ write_fetch_add
    \/ write_lock
    \/ write_guard_drop
    \/ has_changed_load
    \/ has_changed_swap
    \/ read_load
    \/ read_store
    \/ read_lock
    \/ read_guard_drop

SpecRw == InitRw /\ [][NextRw]_vars

\* C31: a has_changed() of a handle that has read or polled before returns
\* true exactly when a write() was called since that earlier call
C31_ChangedIffWritten ==
    (last.op = "has_changed" /\ last.called) => (last.res <=> last.prior > 0)

\* both answers occur: a poll after a write, and a poll with no write between
C31_Witness ==
    /\ last.op = "has_changed" /\ last.called /\ last.res /\ last.prior > 0
    /\ rw.writes = MaxWrites

C31_WitnessQuiet ==
    last.op = "has_changed" /\ last.called /\ ~last.res /\ rw.writes > 0

\* C32: once the writer has finished and the reader is between calls, the
\* reader has seen the value written or its has_changed() still returns true
C32_NoLostChange ==
    (rw.wpc = "idle" /\ rw.writes > 0 /\ rw.rpc = "idle")
        => (rw.seen = rw.data \/ changed(rw.updated_state, rw.last_read))

\* C39: every defined or ratio constraint in the solver is the one recorded in
\* the constraint handles of some child rect
C39_SolverMatchesHandles ==
    \A c \in layout.solver : c.kind \in {"defined", "ratio"} =>
        \E p \in DOMAIN layout.rects : \E i \in 1..Len(layout.rects[p].children) :
            \/ layout.rects[p].children[i].defined = c
            \/ layout.rects[p].children[i].ratio = c

\* C33: running the "alias" command through Commands::run returns, and the
\* lock of the registry is free again
C33_AliasRunReturns ==
    (last.op = "run" /\ split_whitespace(last.arg) # <<>>
                     /\ Head(split_whitespace(last.arg)) = alias)
        => (status = "run" /\ commands.inner = "free")

\* C34: an edit_on_nth called after a move on the same actor completes: it does
\* not wait for the write lock it holds itself
C34_EditAfterMoveCompletes ==
    last.op = "edit_on_nth" => status # "deadlock"

\* C36: after an edit_on_nth that changed the length of the text, every cursor
\* behind the edited one in the list, the last one included, has moved by the
\* difference
C36_LaterCursorsShifted ==
    (status = "run" /\ last.op = "edit_on_nth" /\ Len(text) # last.len) =>
        \A k \in (last.index + 2)..Len(cursors) :
            cursors[k].caret = last.cursors[k].caret + (Len(text) - last.len)

\* C37: a Mover that moves a cursor whose anchor is set (set_anchor, then
\* move_hor) leaves the anchor where it was: the selection spans from the
\* anchor to the new caret
C37_AnchorStays ==
    (status = "run" /\ last.op = "move_nth" /\ last.f = "sel_right") =>
        last.now.anchor = (IF last.was.anchor = None THEN last.was.caret ELSE last.was.anchor)

\* C38: add_cursor_tags gives the main-cursor tag to the caret of the cursor
\* at main_index only
C38_OnlyMainCursorTagged ==
    last.op = "add_cursor_tags" =>
        \A i \in 1..Len(cursors) :
            (i # main_index + 1 /\ cursors[i].caret # cursors[main_index + 1].caret) =>
                [pos |-> cursors[i].caret, tag |-> "MainCursor", marker |-> "cursors"] \notin tags

\* ------------------------------------------------------------------------
\* The reload loop of main (src/main.rs): the main thread spawns the editor
\* thread and waits on BREAK; the editor thread wakes the waiters of BREAK
\* when run returns; the watcher of the configuration crate sets
\* FILES_CHANGED and wakes one waiter.  BREAK is never stored to: it is NO
\* from the start to the end.
\* ------------------------------------------------------------------------
MaxReloads == 2
NO == 0

ReloadOnly ==
    UNCHANGED <<text, tags, cursors, main_index, clearing_needed, moments, cur, bases, tops,
                status, last, nops, builder, print_info, cfg, words, layout, commands,
                rw, mode>>

\* atomic_wait::wake_all / wake_one: a thread that waits on BREAK is woken,
\* nothing is kept for a thread that waits later
wake(R) == IF R.mpc = "waiting" THEN [R EXCEPT !.mpc = "check"] ELSE R

\* std::thread::spawn of the closure that calls run (or run_parsec)
main_spawn ==
    /\ reload.mpc = "spawn"
    /\ reload' = [reload EXCEPT !.mpc = "wait", !.tpc = "run"]
    /\ ReloadOnly

\* run returns in the editor thread: no file is left, or the files to reopen
editor_return(ret) ==
    /\ reload.tpc = "run"
    /\ reload' = [reload EXCEPT !.tpc = "wake", !.ret = ret]
    /\ ReloadOnly

\* atomic_wait::wake_all(&BREAK), and the closure returns
editor_wake_all ==
    /\ reload.tpc = "wake"
    /\ reload' = [wake(reload) EXCEPT !.tpc = "returned"]
    /\ ReloadOnly

\* atomic_wait::wait(&BREAK, NO): the thread sleeps when BREAK is NO
main_wait ==
    /\ reload.mpc = "wait"
    /\ reload' = [reload EXCEPT !.mpc = IF reload.BREAK = NO THEN "waiting" ELSE "check"]
    /\ ReloadOnly

\* atomic_wait::wait may return with no wake
spurious_wake ==
    /\ reload.mpc = "waiting" /\ reload.events < MaxReloads
    /\ reload' = [reload EXCEPT !.mpc = "check", !.events = @ + 1]
    /\ ReloadOnly

\* the watcher's closure on a Modify event
watcher_event ==
    /\ reload.mpc \in {"wait", "waiting", "check", "cargo", "join"}
    /\ reload.events < MaxReloads
    /\ reload' = [wake(reload) EXCEPT !.FILES_CHANGED = TRUE, !.events = @ + 1]
    /\ ReloadOnly

\* after the wait: leave the inner loop when no file changed
main_check ==
    /\ reload.mpc = "check"
    /\ reload' = IF ~reload.FILES_CHANGED THEN [reload EXCEPT !.mpc = "join"]
                 ELSE [reload EXCEPT !.mpc = "cargo", !.FILES_CHANGED = FALSE]
    /\ ReloadOnly

\* run_cargo and the look for the run function: tx.send(()) and leave the
\* inner loop, or wait again
main_cargo(ok) ==
    /\ reload.mpc = "cargo"
    /\ reload' = [reload EXCEPT !.mpc = IF ok THEN "join" ELSE "wait"]
    /\ ReloadOnly

\* handle.join() once the closure has returned, and the end of the outer loop
main_join ==
    /\ reload.mpc = "join" /\ reload.tpc = "returned"
    /\ reload' = [reload EXCEPT !.tpc = "joined", !.loops = @ + 1,
                                !.mpc = IF reload.ret = "empty" \/ reload.loops + 1 >= MaxReloads
                                        THEN "done" ELSE "spawn"]
    /\ ReloadOnly

InitReload ==
    /\ text = <<>> /\ tags = <<>> /\ cursors = <<>> /\ main_index = 0
    /\ clearing_needed = FALSE /\ moments = <<>> /\ cur = 0 /\ bases = {} /\ tops = {}
    /\ status = "run" /\ last = [op |-> "new"] /\ nops = 0
    /\ builder = Builder_default /\ print_info = PrintInfo_default /\ cfg = PrintCfg_default
    /\ words = Words_default /\ layout = [solver |-> {}] /\ commands = [list |-> <<>>]
    /\ rw = [updated_state |-> 1] /\ mode = "Normal"
    /\ reload = [BREAK |-> NO, FILES_CHANGED |-> FALSE, mpc |-> "spawn", tpc |-> "none",
                 ret |-> "empty", loops |-> 0, events |-> 0]

MainThread == main_spawn \/ main_wait \/ main_check \/ (\E ok \in BOOLEAN : main_cargo(ok)) \/ main_join

EditorThread == (\E ret \in {"empty", "files"} : editor_return(ret)) \/ editor_wake_all

NextReload ==
    \/ main_spawn
    \/ main_wait
    \/ main_check
    \/ \E ok \in BOOLEAN : main_cargo(ok)
    \/ main_join
    \/ \E ret \in {"empty", "files"} : editor_return(ret)
    \/ editor_wake_all
    \/ spurious_wake
    \/ watcher_event

SpecReload == InitReload /\ [][NextReload]_vars

\* both threads keep running when they can take a step; nothing makes the
\* watcher see an event or the wait return without a wake
SpecReloadFair == SpecReload /\ WF_vars(MainThread) /\ WF_vars(EditorThread)

\* C35: once the editor thread has returned, the main thread leaves its wait
\* and joins it
C35_ReturnedIsJoined == (reload.tpc = "returned") ~> (reload.tpc = "joined")

\* ------------------------------------------------------------------------
\* The modes of the parsec-kak Editor (parsec-kak lib.rs): process_key hands
\* the key to the handler of the current mode, and the handlers store the
\* next mode.  A handler is the mode it leaves and the WidgetActor calls it
\* makes, in order; `ok` is the answer of the Controler (switch_to,
\* return_to_file).
\* ------------------------------------------------------------------------
Keys == {"ctrl-c", "H", "h", "i", "a", "c", ":", "g", "u", "U", "Enter", "Backspace",
         "Char", "Left", "Esc", "j", "k", "n", "F1"}

Handled(m, calls) == [mode |-> m, calls |-> calls]

\* Editor::match_insert
match_insert_mode(key) ==
    CASE key \in {"Char", "ctrl-c", "H", "h", "i", "a", "c", ":", "g", "u", "U", "j", "k", "n",
                  "Enter"} ->
             Handled("Insert", <<"edit_on_each_cursor", "move_each_cursor">>)
      [] key = "Backspace" ->
             Handled("Insert", <<"move_each_cursor", "edit_on_each_cursor", "move_each_cursor">>)
      [] key = "Left" -> Handled("Insert", <<"move_each_cursor">>)
      [] key = "Esc" -> Handled("Normal", <<"new_moment">>)
      [] OTHER -> Handled("Insert", <<>>)

\* Editor::match_normal
match_normal(key, ok) ==
    CASE key = "ctrl-c" -> Handled("Normal", <<>>)
      [] key \in {"H", "h", "j", "k", "Left"} -> Handled("Normal", <<"move_each_cursor">>)
      [] key \in {"i", "a"} -> Handled("Insert", <<"move_each_cursor">>)
      [] key = "c" -> Handled("Insert", <<"edit_on_each_cursor", "move_each_cursor">>)
      [] key = ":" -> Handled(IF ok THEN "Command" ELSE "Normal", <<>>)
      [] key = "g" -> Handled("GoTo", <<>>)
      [] key = "u" -> Handled("Normal", <<"undo">>)
      [] key = "U" -> Handled("Normal", <<"redo">>)
      [] OTHER -> Handled("Normal", <<>>)

\* Editor::match_command
match_command(key, ok) ==
    CASE key = "Enter" -> Handled(IF ok THEN "Normal" ELSE "Command", <<>>)
      [] key = "Backspace" ->
             Handled("Command", <<"move_each_cursor", "edit_on_each_cursor", "move_each_cursor">>)
      [] key \in {"Char", "ctrl-c", "H", "h", "i", "a", "c", ":", "g", "u", "U", "j", "k", "n"} ->
             Handled("Command", <<"edit_on_main", "move_main">>)
      [] key = "Left" -> Handled("Command", <<"move_each_cursor">>)
      [] key = "Esc" -> Handled(IF ok THEN "Normal" ELSE "Command", <<"move_main", "edit_on_main">>)
      [] OTHER -> Handled("Command", <<>>)

\* Editor::match_goto, with the mutant that leaves for the View mode
match_goto_view(key) == Handled("View", IF key \in {"j", "k"} THEN <<"move_main">> ELSE <<>>)
match_goto(key) == Handled("Normal", IF key \in {"j", "k"} THEN <<"move_main">> ELSE <<>>)

\* an edit_on_main behind a move of the same actor asks for the lock of the
\* widget a second time and does not return
hangs(calls) ==
    \E i, j \in 1..Len(calls) : i < j /\ calls[i] = "move_main" /\ calls[j] = "edit_on_main"

\* Scheme::process_key for Editor
process_key(key, ok) ==
    /\ status = "run" /\ nops < MaxKeys
    /\ IF mode = "View"
       THEN mode' = mode /\ status' = "panic"
       ELSE LET h == CASE mode = "Insert" -> match_insert_mode(key)
                       [] mode = "Normal" -> match_normal(key, ok)
                       [] mode = "Command" -> match_command(key, ok)
                       [] OTHER -> match_goto(key)
            IN  IF hangs(h.calls)
                THEN mode' = mode /\ status' \in {"deadlock", "panic"}
                ELSE mode' = h.mode /\ status' = status
    /\ last' = [op |-> "process_key", key |-> key, was |-> mode]
    /\ nops' = nops + 1
    /\ UNCHANGED <<text, tags, cursors, main_index, clearing_needed, moments, cur, bases, tops,
                   builder, print_info, cfg, words, layout, commands, rw, reload>>

\* Editor::default: the Normal mode
InitMode ==
    /\ text = <<>> /\ tags = <<>> /\ cursors = <<>> /\ main_index = 0
    /\ clearing_needed = FALSE /\ moments = <<>> /\ cur = 0 /\ bases = {} /\ tops = {}
    /\ status = "run" /\ last = [op |-> "new"] /\ nops = 0
    /\ builder = Builder_default /\ print_info = PrintInfo_default /\ cfg = PrintCfg_default
    /\ words = Words_default /\ layout = [solver |-> {}] /\ commands = [list |-> <<>>]
    /\ rw = [updated_state |-> 1] /\ reload = [BREAK |-> 0]
    /\ mode = "Normal"

NextMode == \E key \in Keys, ok \in BOOLEAN : process_key(key, ok)

SpecMode == InitMode /\ [][NextMode]_vars

\* C40: from the Normal mode on, the mode is Insert, Normal, GoTo or Command
\* and never View, and process_key never takes its View branch
C40_NeverView ==
    /\ mode \in {"Insert", "Normal", "GoTo", "Command"}
    /\ last.op = "process_key" => last.was # "View"

\* the goto mode was left for the Normal mode by the last of MaxKeys keys
C40_Witness ==
    mode = "Normal" /\ last.op = "process_key" /\ last.was = "GoTo" /\ nops = MaxKeys

====
